---- MODULE Spec2Model ----
(***************************************************************************)
(* The on-ledger state machine of DataDex: the Move modules                *)
(* DataDex::Marketplace and DataDex::RewardSystem.                         *)
(*                                                                         *)
(* Every entry function is one action.  An entry function runs as one     *)
(* Move transaction: an assert! that fails, or an abort inside a framework *)
(* call, discards every write the transaction made.  Each function is      *)
(* therefore written twice over: an operator X_exec that walks the body    *)
(* statement by statement and returns the abort code together with the     *)
(* storage as the body left it at that point, and an action X that commits *)
(* that storage only when the body ran to its end.                         *)
(*                                                                         *)
(* Left out: the String metadata of a dataset (ipfs_hash, title,           *)
(* description, category), the names of milestones, the reason of a bonus  *)
(* and every timestamp; no guard of either module reads them.  Amounts     *)
(* stay far below 2^64, so no u64 addition or multiplication overflows.    *)
(***************************************************************************)
EXTENDS Integers, Sequences, FiniteSets, TLC

(* ---------------------------------------------------------------------- *)
(* Addresses and input sets                                                *)
(* ---------------------------------------------------------------------- *)

\* @DataDex, the address the modules are published under
DataDex == "DataDex"

\* accounts that hold a CoinStore<AptosCoin> (coin::register was called)
Registered == {DataDex, "alice", "bob"}

\* every address of the model; carol has an account but no CoinStore
Address == Registered \cup {"carol"}

\* the APT each account holds before the first transaction
InitialCoins == [a \in Address |->
    CASE a = DataDex -> 100000000 [] a = "alice" -> 60000000
      [] a = "bob" -> 40000000 [] OTHER -> 0]

\* how many datasets upload_dataset may list
MaxDatasets == 2

\* the prices upload_dataset is called with (0 is the invalid one)
UploadPrices == {0, 30000030}

\* the prices update_dataset_price is called with (0 is the invalid one)
NewPrices == {0, 50000000}

\* the accounts that list datasets: one with a CoinStore, one without
Uploaders == {"alice", "carol"}

\* the accounts that try to deactivate and re-price datasets: an owner and
\* one that owns none
Managers == {"alice", "bob"}

\* the recipients initialize names for the platform fee
FeeRecipients == {DataDex, "carol"}

\* the fee percentages initialize is called with (21 is the invalid one)
FeePercentages == {0, 5, 21}

\* the signers that try to initialize a marketplace
Initializers == {DataDex, "alice"}

\* the dataset ids callers name: every id ever assigned and one never assigned
DatasetIds == 1..(MaxDatasets + 1)

\* how many milestones the table may hold: the four defaults and one more
MaxMilestones == 5

\* how many times the pool may be replenished
MaxReplenish == 1

\* the signers that call the admin functions of the reward system
PoolAdmins == {DataDex, "bob"}

\* the balances initialize_reward_system is called with; the last exceeds
\* what the admin holds
InitialBalances == {0, 6000000, 200000000}

\* the (requirement, reward_amount) add_milestone is called with
Requirements == {2}
RewardAmounts == {0, 2000000}

\* the recipients of bonus and milestone payouts
Recipients == {"alice", "carol"}

\* the amounts pay_bonus_reward is called with
BonusAmounts == {0, 3000000, 7000000}

\* the amounts replenish_pool is called with; the last exceeds what the
\* admin holds
ReplenishAmounts == {0, 5000000, 200000000}

\* the users that call check_milestones, and the counts they report
Achievers == {"alice"}
UploadCounts == {0, 1, 10}

\* the milestone ids callers name: a default one and one never assigned
MilestoneIds == {2, MaxMilestones + 1}

NoResource == [exists |-> FALSE]

(* ---------------------------------------------------------------------- *)
(* Abort codes                                                             *)
(* ---------------------------------------------------------------------- *)

E_NOT_INITIALIZED == 1
E_ALREADY_INITIALIZED == 2
E_DATASET_NOT_FOUND == 3
E_INSUFFICIENT_BALANCE == 4
E_UNAUTHORIZED == 5
E_INVALID_PRICE == 6
E_DATASET_ALREADY_PURCHASED == 7

\* the codes of DataDex::RewardSystem
RS_E_ALREADY_INITIALIZED == 2
RS_E_UNAUTHORIZED == 3
RS_E_INSUFFICIENT_BALANCE == 4
RS_E_INVALID_AMOUNT == 5

\* the transaction ran to its end
OK == [module |-> "", code |-> 0]
MarketError(c) == [module |-> "Marketplace", code |-> c]
RewardError(c) == [module |-> "RewardSystem", code |-> c]
\* borrow_global / borrow_global_mut of a resource that is not published
MISSING_RESOURCE == [module |-> "vm", code |-> 0]
\* coin::transfer: the sender holds less than the amount
COIN_EINSUFFICIENT_BALANCE == [module |-> "coin", code |-> 6]
\* coin::transfer: the recipient (or sender) has no CoinStore
COIN_ECOIN_STORE_NOT_PUBLISHED == [module |-> "coin", code |-> 5]

(* ---------------------------------------------------------------------- *)
(* State                                                                   *)
(* ---------------------------------------------------------------------- *)

VARIABLES
    marketplace,         \* the DataMarketplace resource under @DataDex, or NoResource
    other_marketplaces,  \* the other addresses holding a DataMarketplace of their own
    user_stats,          \* address -> its UserStats resource, or NoResource
    coin_balance,        \* address -> coin::balance<AptosCoin>
    reward_pool,         \* the RewardPool resource under @DataDex, or NoResource
    other_reward_pools,  \* the other addresses holding a RewardPool of their own
    user_achievements,   \* address -> its UserAchievements resource, or NoResource
    last                 \* the last transaction submitted and how it ended

vars == <<marketplace, other_marketplaces, user_stats, coin_balance,
          reward_pool, other_reward_pools, user_achievements, last>>

\* global storage, as one value
Storage == [marketplace |-> marketplace,
            other_marketplaces |-> other_marketplaces,
            user_stats |-> user_stats,
            coin_balance |-> coin_balance,
            reward_pool |-> reward_pool,
            other_reward_pools |-> other_reward_pools,
            user_achievements |-> user_achievements]

Dataset(id, price, owner) ==
    [id |-> id, price |-> price, owner |-> owner,
     total_purchases |-> 0, is_active |-> TRUE]

Purchase(dataset_id, buyer, seller, price) ==
    [dataset_id |-> dataset_id, buyer |-> buyer, seller |-> seller, price |-> price]

NewUserStats ==
    [exists |-> TRUE, datasets_uploaded |-> 0, datasets_purchased |-> 0,
     total_earned |-> 0, total_spent |-> 0]

NewMarketplace(fee, recipient) ==
    [exists |-> TRUE,
     datasets |-> << >>,
     purchases |-> << >>,
     next_dataset_id |-> 1,
     platform_fee_percentage |-> fee,
     platform_fee_recipient |-> recipient,
     dataset_uploaded_events |-> << >>,
     dataset_purchased_events |-> << >>,
     reward_paid_events |-> << >>]

\* the outcome of a transaction body: how it ended, and storage at that point
Outcome(code, st) == [code |-> code, post |-> st]

Tx(op, caller, to, id, amount, code) ==
    [op |-> op, caller |-> caller, to |-> to, id |-> id, amount |-> amount,
     code |-> code]

Milestone(id, requirement, reward_amount) ==
    [id |-> id, requirement |-> requirement, reward_amount |-> reward_amount,
     is_active |-> TRUE]

NewRewardPool(admin_addr, initial_balance) ==
    [exists |-> TRUE,
     balance |-> initial_balance,
     total_rewards_paid |-> 0,
     bonus_rewards |-> << >>,
     milestones |-> << >>,
     next_milestone_id |-> 1,
     admin |-> admin_addr,
     bonus_reward_events |-> << >>,
     milestone_events |-> << >>,
     pool_replenished_events |-> << >>]

NewUserAchievements ==
    [exists |-> TRUE, milestones_achieved |-> << >>, total_bonus_received |-> 0]

(* ---------------------------------------------------------------------- *)
(* Helpers of the Marketplace module                                       *)
(* ---------------------------------------------------------------------- *)

\* the index of the first dataset with this id, 0 for option::none
find_dataset_by_id(ds, dataset_id) ==
    LET hits == {i \in 1..Len(ds) : ds[i].id = dataset_id}
    IN IF hits = {} THEN 0 ELSE CHOOSE i \in hits : \A j \in hits : i <= j

\* has_purchased_dataset comparing the wrong field of the Purchase
has_purchased_from(ps, buyer, dataset_id) ==
    \E i \in 1..Len(ps) : ps[i].seller = buyer /\ ps[i].dataset_id = dataset_id

has_purchased_dataset(ps, buyer, dataset_id) ==
    \E i \in 1..Len(ps) : ps[i].buyer = buyer /\ ps[i].dataset_id = dataset_id

\* coin::transfer<AptosCoin>(from, to, amount) on the balances bal
coin_transfer(bal, from, to, amount) ==
    IF from \notin Registered THEN [code |-> COIN_ECOIN_STORE_NOT_PUBLISHED, bal |-> bal]
    ELSE IF bal[from] < amount THEN [code |-> COIN_EINSUFFICIENT_BALANCE, bal |-> bal]
    ELSE IF to \notin Registered THEN [code |-> COIN_ECOIN_STORE_NOT_PUBLISHED, bal |-> bal]
    ELSE [code |-> OK,
          bal |-> [a \in Address |->
                     bal[a] - (IF a = from THEN amount ELSE 0)
                            + (IF a = to THEN amount ELSE 0)]]

\* platform_fee_of rounding to the nearest unit instead of down
platform_fee_rounded(price, pct) == (price * pct + 50) \div 100

\* the platform fee of a price: integer division, as u64 division in Move
platform_fee_of(price, pct) == (price * pct) \div 100

\* touch_stats with an unconditional move_to of a fresh UserStats
touch_stats_fresh(stats, addr) == [stats EXCEPT ![addr] = NewUserStats]

\* the UserStats of addr after `if (!exists<UserStats>(addr)) move_to(...)`
touch_stats(stats, addr) ==
    IF stats[addr].exists THEN stats ELSE [stats EXCEPT ![addr] = NewUserStats]

(* ---------------------------------------------------------------------- *)
(* Transaction bodies of the Marketplace module                            *)
(* ---------------------------------------------------------------------- *)

\* initialize without the assertion on the fee percentage
initialize_unbounded(admin_addr, fee, recipient) ==
    LET held == IF admin_addr = DataDex THEN marketplace.exists
                ELSE admin_addr \in other_marketplaces
    IN IF held THEN Outcome(MarketError(E_ALREADY_INITIALIZED), Storage)
       ELSE IF admin_addr = DataDex
            THEN Outcome(OK, [Storage EXCEPT !.marketplace = NewMarketplace(fee, recipient)])
            ELSE Outcome(OK, [Storage EXCEPT
                     !.other_marketplaces = other_marketplaces \cup {admin_addr}])

initialize_exec(admin_addr, fee, recipient) ==
    LET held == IF admin_addr = DataDex THEN marketplace.exists
                ELSE admin_addr \in other_marketplaces
    IN IF held THEN Outcome(MarketError(E_ALREADY_INITIALIZED), Storage)
       ELSE IF ~(fee <= 20) THEN Outcome(MarketError(E_INVALID_PRICE), Storage)
       ELSE IF admin_addr = DataDex
            THEN Outcome(OK, [Storage EXCEPT !.marketplace = NewMarketplace(fee, recipient)])
            ELSE Outcome(OK, [Storage EXCEPT
                     !.other_marketplaces = other_marketplaces \cup {admin_addr}])

\* upload_dataset without the increment of next_dataset_id
upload_dataset_reuse(owner, price) ==
    IF ~(price > 0) THEN Outcome(MarketError(E_INVALID_PRICE), Storage)
    ELSE IF ~marketplace.exists THEN Outcome(MISSING_RESOURCE, Storage)
    ELSE
      LET dataset_id == marketplace.next_dataset_id
          m1 == [marketplace EXCEPT
                   !.datasets = Append(@, Dataset(dataset_id, price, owner))]
          s1 == touch_stats(user_stats, owner)
          s2 == [s1 EXCEPT ![owner].datasets_uploaded = @ + 1]
          m2 == [m1 EXCEPT !.dataset_uploaded_events =
                   Append(@, [dataset_id |-> dataset_id, owner |-> owner, price |-> price])]
      IN Outcome(OK, [Storage EXCEPT !.marketplace = m2, !.user_stats = s2])

\* upload_dataset without the UserStats of the owner
upload_dataset_statless(owner, price) ==
    IF ~(price > 0) THEN Outcome(MarketError(E_INVALID_PRICE), Storage)
    ELSE IF ~marketplace.exists THEN Outcome(MISSING_RESOURCE, Storage)
    ELSE
      LET dataset_id == marketplace.next_dataset_id
          m1 == [marketplace EXCEPT
                   !.datasets = Append(@, Dataset(dataset_id, price, owner)),
                   !.next_dataset_id = dataset_id + 1]
          m2 == [m1 EXCEPT !.dataset_uploaded_events =
                   Append(@, [dataset_id |-> dataset_id, owner |-> owner, price |-> price])]
      IN Outcome(OK, [Storage EXCEPT !.marketplace = m2])

upload_dataset_exec(owner, price) ==
    IF ~(price > 0) THEN Outcome(MarketError(E_INVALID_PRICE), Storage)
    ELSE IF ~marketplace.exists THEN Outcome(MISSING_RESOURCE, Storage)
    ELSE
      LET dataset_id == marketplace.next_dataset_id
          m1 == [marketplace EXCEPT
                   !.datasets = Append(@, Dataset(dataset_id, price, owner)),
                   !.next_dataset_id = dataset_id + 1]
          s1 == touch_stats(user_stats, owner)
          s2 == [s1 EXCEPT ![owner].datasets_uploaded = @ + 1]
          m2 == [m1 EXCEPT !.dataset_uploaded_events =
                   Append(@, [dataset_id |-> dataset_id, owner |-> owner, price |-> price])]
      IN Outcome(OK, [Storage EXCEPT !.marketplace = m2, !.user_stats = s2])

\* purchase_checks without the duplicate-purchase assertion
purchase_checks_twice(buyer_addr, dataset_id) ==
    LET dataset_index == find_dataset_by_id(marketplace.datasets, dataset_id) IN
    IF dataset_index = 0 THEN MarketError(E_DATASET_NOT_FOUND)
    ELSE
    LET dataset == marketplace.datasets[dataset_index] IN
    IF ~dataset.is_active THEN MarketError(E_DATASET_NOT_FOUND)
    ELSE IF ~(dataset.owner # buyer_addr) THEN MarketError(E_UNAUTHORIZED)
    ELSE IF ~(coin_balance[buyer_addr] >= dataset.price)
         THEN MarketError(E_INSUFFICIENT_BALANCE)
    ELSE OK

\* purchase_checks without the owner assertion
purchase_checks_own(buyer_addr, dataset_id) ==
    LET dataset_index == find_dataset_by_id(marketplace.datasets, dataset_id) IN
    IF dataset_index = 0 THEN MarketError(E_DATASET_NOT_FOUND)
    ELSE
    LET dataset == marketplace.datasets[dataset_index] IN
    IF ~dataset.is_active THEN MarketError(E_DATASET_NOT_FOUND)
    ELSE IF has_purchased_dataset(marketplace.purchases, buyer_addr, dataset_id)
         THEN MarketError(E_DATASET_ALREADY_PURCHASED)
    ELSE IF ~(coin_balance[buyer_addr] >= dataset.price)
         THEN MarketError(E_INSUFFICIENT_BALANCE)
    ELSE OK

\* purchase_checks without the is_active assertion
purchase_checks_inactive(buyer_addr, dataset_id) ==
    LET dataset_index == find_dataset_by_id(marketplace.datasets, dataset_id) IN
    IF dataset_index = 0 THEN MarketError(E_DATASET_NOT_FOUND)
    ELSE
    LET dataset == marketplace.datasets[dataset_index] IN
    IF ~(dataset.owner # buyer_addr) THEN MarketError(E_UNAUTHORIZED)
    ELSE IF has_purchased_dataset(marketplace.purchases, buyer_addr, dataset_id)
         THEN MarketError(E_DATASET_ALREADY_PURCHASED)
    ELSE IF ~(coin_balance[buyer_addr] >= dataset.price)
         THEN MarketError(E_INSUFFICIENT_BALANCE)
    ELSE OK

\* purchase_checks without the balance assertion
purchase_checks_unfunded(buyer_addr, dataset_id) ==
    LET dataset_index == find_dataset_by_id(marketplace.datasets, dataset_id) IN
    IF dataset_index = 0 THEN MarketError(E_DATASET_NOT_FOUND)
    ELSE
    LET dataset == marketplace.datasets[dataset_index] IN
    IF ~dataset.is_active THEN MarketError(E_DATASET_NOT_FOUND)
    ELSE IF ~(dataset.owner # buyer_addr) THEN MarketError(E_UNAUTHORIZED)
    ELSE IF has_purchased_dataset(marketplace.purchases, buyer_addr, dataset_id)
         THEN MarketError(E_DATASET_ALREADY_PURCHASED)
    ELSE OK

\* purchase_checks with the balance assertion ahead of the duplicate-purchase
\* assertion
purchase_checks_balance_first(buyer_addr, dataset_id) ==
    LET dataset_index == find_dataset_by_id(marketplace.datasets, dataset_id) IN
    IF dataset_index = 0 THEN MarketError(E_DATASET_NOT_FOUND)
    ELSE
    LET dataset == marketplace.datasets[dataset_index] IN
    IF ~dataset.is_active THEN MarketError(E_DATASET_NOT_FOUND)
    ELSE IF ~(dataset.owner # buyer_addr) THEN MarketError(E_UNAUTHORIZED)
    ELSE IF ~(coin_balance[buyer_addr] >= dataset.price)
         THEN MarketError(E_INSUFFICIENT_BALANCE)
    ELSE IF has_purchased_dataset(marketplace.purchases, buyer_addr, dataset_id)
         THEN MarketError(E_DATASET_ALREADY_PURCHASED)
    ELSE OK

\* the assertions of purchase_dataset, in the order the body makes them: the
\* code of the first that fails, OK when all pass
purchase_checks(buyer_addr, dataset_id) ==
    LET dataset_index == find_dataset_by_id(marketplace.datasets, dataset_id) IN
    IF dataset_index = 0 THEN MarketError(E_DATASET_NOT_FOUND)
    ELSE
    LET dataset == marketplace.datasets[dataset_index] IN
    IF ~dataset.is_active THEN MarketError(E_DATASET_NOT_FOUND)
    ELSE IF ~(dataset.owner # buyer_addr) THEN MarketError(E_UNAUTHORIZED)
    ELSE IF has_purchased_dataset(marketplace.purchases, buyer_addr, dataset_id)
         THEN MarketError(E_DATASET_ALREADY_PURCHASED)
    ELSE IF ~(coin_balance[buyer_addr] >= dataset.price)
         THEN MarketError(E_INSUFFICIENT_BALANCE)
    ELSE OK

\* purchase_payment without the transfer to the seller
purchase_payment_fee_only(bal, buyer_addr, recipient, seller_addr, platform_fee, seller_amount) ==
    IF platform_fee > 0
    THEN coin_transfer(bal, buyer_addr, recipient, platform_fee)
    ELSE [code |-> OK, bal |-> bal]

\* purchase_payment with the whole price, not price - fee, going to the seller
purchase_payment_whole(bal, buyer_addr, recipient, seller_addr, platform_fee, seller_amount) ==
    LET t1 == IF platform_fee > 0
              THEN coin_transfer(bal, buyer_addr, recipient, platform_fee)
              ELSE [code |-> OK, bal |-> bal]
    IN IF t1.code # OK THEN t1
       ELSE coin_transfer(t1.bal, buyer_addr, seller_addr, seller_amount + platform_fee)

\* the two coin::transfer calls of purchase_dataset: how they ended, and the
\* balances at that point
purchase_payment(bal, buyer_addr, recipient, seller_addr, platform_fee, seller_amount) ==
    LET t1 == IF platform_fee > 0
              THEN coin_transfer(bal, buyer_addr, recipient, platform_fee)
              ELSE [code |-> OK, bal |-> bal]
    IN IF t1.code # OK THEN t1
       ELSE coin_transfer(t1.bal, buyer_addr, seller_addr, seller_amount)

\* record_purchase without the counter update
record_purchase_uncounted(m, dataset_index, purchase) ==
    [m EXCEPT !.purchases = Append(@, purchase)]

\* the Purchase pushed on marketplace.purchases and the dataset's counter
record_purchase(m, dataset_index, purchase) ==
    [m EXCEPT !.purchases = Append(@, purchase),
              !.datasets[dataset_index].total_purchases = @ + 1]

\* update_purchase_stats without the credit to the seller
update_purchase_stats_uncredited(stats, buyer_addr, seller_addr, price, seller_amount) ==
    LET s1 == touch_stats(stats, buyer_addr)
    IN [s1 EXCEPT ![buyer_addr].datasets_purchased = @ + 1,
                  ![buyer_addr].total_spent = @ + price]

\* the UserStats of buyer and seller after a purchase
update_purchase_stats(stats, buyer_addr, seller_addr, price, seller_amount) ==
    LET s1 == touch_stats(stats, buyer_addr)
        s2 == [s1 EXCEPT ![buyer_addr].datasets_purchased = @ + 1,
                         ![buyer_addr].total_spent = @ + price]
    IN IF s2[seller_addr].exists
       THEN [s2 EXCEPT ![seller_addr].total_earned = @ + seller_amount]
       ELSE s2

\* the DatasetPurchasedEvent and the RewardPaidEvent of a purchase
emit_purchase_events(m, dataset_id, buyer_addr, seller_addr, price, seller_amount) ==
    [m EXCEPT
       !.dataset_purchased_events =
           Append(@, [dataset_id |-> dataset_id, buyer |-> buyer_addr,
                      seller |-> seller_addr, price |-> price]),
       !.reward_paid_events =
           Append(@, [recipient |-> seller_addr, amount |-> seller_amount,
                      dataset_id |-> dataset_id])]

purchase_dataset_exec(buyer_addr, dataset_id) ==
    IF ~marketplace.exists THEN Outcome(MISSING_RESOURCE, Storage)
    ELSE
    LET checked == purchase_checks(buyer_addr, dataset_id) IN
    IF checked # OK THEN Outcome(checked, Storage)
    ELSE
    LET dataset_index == find_dataset_by_id(marketplace.datasets, dataset_id)
        dataset == marketplace.datasets[dataset_index]
        price == dataset.price
        seller_addr == dataset.owner
        platform_fee == platform_fee_of(price, marketplace.platform_fee_percentage)
        seller_amount == price - platform_fee
        paid == purchase_payment(coin_balance, buyer_addr,
                                 marketplace.platform_fee_recipient, seller_addr,
                                 platform_fee, seller_amount)
    IN
    IF paid.code # OK THEN Outcome(paid.code, [Storage EXCEPT !.coin_balance = paid.bal])
    ELSE
    LET m1 == record_purchase(marketplace, dataset_index,
                              Purchase(dataset_id, buyer_addr, seller_addr, price))
        s1 == update_purchase_stats(user_stats, buyer_addr, seller_addr,
                                    price, seller_amount)
        m2 == emit_purchase_events(m1, dataset_id, buyer_addr, seller_addr,
                                   price, seller_amount)
    IN Outcome(OK, [Storage EXCEPT !.marketplace = m2, !.user_stats = s1,
                                   !.coin_balance = paid.bal])

\* deactivate_dataset without the owner assertion
deactivate_dataset_any(owner_addr, dataset_id) ==
    IF ~marketplace.exists THEN Outcome(MISSING_RESOURCE, Storage)
    ELSE
    LET dataset_index == find_dataset_by_id(marketplace.datasets, dataset_id) IN
    IF dataset_index = 0 THEN Outcome(MarketError(E_DATASET_NOT_FOUND), Storage)
    ELSE Outcome(OK, [Storage EXCEPT
             !.marketplace.datasets[dataset_index].is_active = FALSE])

\* deactivate_dataset removing the dataset from the vector
deactivate_dataset_remove(owner_addr, dataset_id) ==
    IF ~marketplace.exists THEN Outcome(MISSING_RESOURCE, Storage)
    ELSE
    LET dataset_index == find_dataset_by_id(marketplace.datasets, dataset_id) IN
    IF dataset_index = 0 THEN Outcome(MarketError(E_DATASET_NOT_FOUND), Storage)
    ELSE IF ~(marketplace.datasets[dataset_index].owner = owner_addr)
         THEN Outcome(MarketError(E_UNAUTHORIZED), Storage)
    ELSE Outcome(OK, [Storage EXCEPT
             !.marketplace.datasets =
                 SubSeq(@, 1, dataset_index - 1) \o SubSeq(@, dataset_index + 1, Len(@))])

deactivate_dataset_exec(owner_addr, dataset_id) ==
    IF ~marketplace.exists THEN Outcome(MISSING_RESOURCE, Storage)
    ELSE
    LET dataset_index == find_dataset_by_id(marketplace.datasets, dataset_id) IN
    IF dataset_index = 0 THEN Outcome(MarketError(E_DATASET_NOT_FOUND), Storage)
    ELSE IF ~(marketplace.datasets[dataset_index].owner = owner_addr)
         THEN Outcome(MarketError(E_UNAUTHORIZED), Storage)
    ELSE Outcome(OK, [Storage EXCEPT
             !.marketplace.datasets[dataset_index].is_active = FALSE])

\* update_dataset_price without the price assertion
update_dataset_price_unchecked(owner_addr, dataset_id, new_price) ==
    IF ~marketplace.exists THEN Outcome(MISSING_RESOURCE, Storage)
    ELSE
    LET dataset_index == find_dataset_by_id(marketplace.datasets, dataset_id) IN
    IF dataset_index = 0 THEN Outcome(MarketError(E_DATASET_NOT_FOUND), Storage)
    ELSE IF ~(marketplace.datasets[dataset_index].owner = owner_addr)
         THEN Outcome(MarketError(E_UNAUTHORIZED), Storage)
    ELSE Outcome(OK, [Storage EXCEPT
             !.marketplace.datasets[dataset_index].price = new_price])

\* update_dataset_price writing the new price into the Purchases of the
\* dataset as well
update_dataset_price_rewriting(owner_addr, dataset_id, new_price) ==
    IF ~(new_price > 0) THEN Outcome(MarketError(E_INVALID_PRICE), Storage)
    ELSE IF ~marketplace.exists THEN Outcome(MISSING_RESOURCE, Storage)
    ELSE
    LET dataset_index == find_dataset_by_id(marketplace.datasets, dataset_id) IN
    IF dataset_index = 0 THEN Outcome(MarketError(E_DATASET_NOT_FOUND), Storage)
    ELSE IF ~(marketplace.datasets[dataset_index].owner = owner_addr)
         THEN Outcome(MarketError(E_UNAUTHORIZED), Storage)
    ELSE Outcome(OK, [Storage EXCEPT
             !.marketplace.datasets[dataset_index].price = new_price,
             !.marketplace.purchases =
                 [i \in 1..Len(@) |->
                     IF @[i].dataset_id = dataset_id
                     THEN [@[i] EXCEPT !.price = new_price] ELSE @[i]]])

update_dataset_price_exec(owner_addr, dataset_id, new_price) ==
    IF ~(new_price > 0) THEN Outcome(MarketError(E_INVALID_PRICE), Storage)
    ELSE IF ~marketplace.exists THEN Outcome(MISSING_RESOURCE, Storage)
    ELSE
    LET dataset_index == find_dataset_by_id(marketplace.datasets, dataset_id) IN
    IF dataset_index = 0 THEN Outcome(MarketError(E_DATASET_NOT_FOUND), Storage)
    ELSE IF ~(marketplace.datasets[dataset_index].owner = owner_addr)
         THEN Outcome(MarketError(E_UNAUTHORIZED), Storage)
    ELSE Outcome(OK, [Storage EXCEPT
             !.marketplace.datasets[dataset_index].price = new_price])

(* ---------------------------------------------------------------------- *)
(* Transaction bodies of the RewardSystem module                           *)
(* ---------------------------------------------------------------------- *)

\* exists<RewardPool>(addr) in storage st
pool_exists(st, addr) ==
    IF addr = DataDex THEN st.reward_pool.exists ELSE addr \in st.other_reward_pools

\* add_milestone without the assertion on the reward amount
add_milestone_free(st, admin_addr, requirement, reward_amount) ==
    IF ~st.reward_pool.exists THEN Outcome(MISSING_RESOURCE, st)
    ELSE IF ~(st.reward_pool.admin = admin_addr)
         THEN Outcome(RewardError(RS_E_UNAUTHORIZED), st)
    ELSE Outcome(OK, [st EXCEPT
             !.reward_pool.milestones =
                 Append(@, Milestone(st.reward_pool.next_milestone_id,
                                     requirement, reward_amount)),
             !.reward_pool.next_milestone_id = @ + 1])

\* add_milestone run on storage st (initialize_reward_system calls it four
\* times inside its own transaction)
add_milestone_on(st, admin_addr, requirement, reward_amount) ==
    IF ~st.reward_pool.exists THEN Outcome(MISSING_RESOURCE, st)
    ELSE IF ~(st.reward_pool.admin = admin_addr)
         THEN Outcome(RewardError(RS_E_UNAUTHORIZED), st)
    ELSE IF ~(reward_amount > 0) THEN Outcome(RewardError(RS_E_INVALID_AMOUNT), st)
    ELSE Outcome(OK, [st EXCEPT
             !.reward_pool.milestones =
                 Append(@, Milestone(st.reward_pool.next_milestone_id,
                                     requirement, reward_amount)),
             !.reward_pool.next_milestone_id = @ + 1])

add_milestone_exec(admin_addr, requirement, reward_amount) ==
    add_milestone_on(Storage, admin_addr, requirement, reward_amount)

\* the (requirement, reward_amount) of the four default milestones
DefaultMilestones ==
    << <<1, 1000000>>, <<5, 5000000>>, <<10, 10000000>>, <<25, 25000000>> >>

RECURSIVE create_default_milestones(_, _, _)
\* the add_milestone calls from the i-th default on; the first abort ends them
create_default_milestones(st, admin_addr, i) ==
    IF i > Len(DefaultMilestones) THEN Outcome(OK, st)
    ELSE LET r == add_milestone_on(st, admin_addr,
                                   DefaultMilestones[i][1], DefaultMilestones[i][2])
         IN IF r.code # OK THEN r
            ELSE create_default_milestones(r.post, admin_addr, i + 1)

\* initialize_reward_system without the assertion on exists<RewardPool>
initialize_reward_system_again(admin_addr, initial_balance) ==
    LET t == IF initial_balance > 0
             THEN coin_transfer(coin_balance, admin_addr, admin_addr, initial_balance)
             ELSE [code |-> OK, bal |-> coin_balance]
    IN
    IF t.code # OK THEN Outcome(t.code, Storage)
    ELSE
    LET s0 == [Storage EXCEPT !.coin_balance = t.bal]
        s1 == IF admin_addr = DataDex
              THEN [s0 EXCEPT !.reward_pool = NewRewardPool(admin_addr, initial_balance)]
              ELSE [s0 EXCEPT !.other_reward_pools = @ \cup {admin_addr}]
    IN create_default_milestones(s1, admin_addr, 1)

initialize_reward_system_exec(admin_addr, initial_balance) ==
    IF pool_exists(Storage, admin_addr)
    THEN Outcome(RewardError(RS_E_ALREADY_INITIALIZED), Storage)
    ELSE
    LET t == IF initial_balance > 0
             THEN coin_transfer(coin_balance, admin_addr, admin_addr, initial_balance)
             ELSE [code |-> OK, bal |-> coin_balance]
    IN
    IF t.code # OK THEN Outcome(t.code, Storage)
    ELSE
    LET s0 == [Storage EXCEPT !.coin_balance = t.bal]
        s1 == IF admin_addr = DataDex
              THEN [s0 EXCEPT !.reward_pool = NewRewardPool(admin_addr, initial_balance)]
              ELSE [s0 EXCEPT !.other_reward_pools = @ \cup {admin_addr}]
    IN create_default_milestones(s1, admin_addr, 1)

\* pay_bonus_reward without the assertion on the pool balance
pay_bonus_reward_overdraw(admin_addr, recipient, amount) ==
    IF ~reward_pool.exists THEN Outcome(MISSING_RESOURCE, Storage)
    ELSE IF ~(reward_pool.admin = admin_addr)
         THEN Outcome(RewardError(RS_E_UNAUTHORIZED), Storage)
    ELSE IF ~(amount > 0) THEN Outcome(RewardError(RS_E_INVALID_AMOUNT), Storage)
    ELSE
    LET t == coin_transfer(coin_balance, admin_addr, recipient, amount) IN
    IF t.code # OK THEN Outcome(t.code, Storage)
    ELSE
    LET p1 == [reward_pool EXCEPT
                 !.balance = @ - amount,
                 !.total_rewards_paid = @ + amount,
                 !.bonus_rewards = Append(@, [recipient |-> recipient, amount |-> amount]),
                 !.bonus_reward_events =
                     Append(@, [recipient |-> recipient, amount |-> amount])]
    IN Outcome(OK, [Storage EXCEPT !.reward_pool = p1, !.coin_balance = t.bal])

\* pay_bonus_reward without the push_back onto bonus_rewards
pay_bonus_reward_unrecorded(admin_addr, recipient, amount) ==
    IF ~reward_pool.exists THEN Outcome(MISSING_RESOURCE, Storage)
    ELSE IF ~(reward_pool.admin = admin_addr)
         THEN Outcome(RewardError(RS_E_UNAUTHORIZED), Storage)
    ELSE IF ~(amount > 0) THEN Outcome(RewardError(RS_E_INVALID_AMOUNT), Storage)
    ELSE IF ~(reward_pool.balance >= amount)
         THEN Outcome(RewardError(RS_E_INSUFFICIENT_BALANCE), Storage)
    ELSE
    LET t == coin_transfer(coin_balance, admin_addr, recipient, amount) IN
    IF t.code # OK THEN Outcome(t.code, Storage)
    ELSE
    LET p1 == [reward_pool EXCEPT
                 !.balance = @ - amount,
                 !.total_rewards_paid = @ + amount,
                 !.bonus_reward_events =
                     Append(@, [recipient |-> recipient, amount |-> amount])]
    IN Outcome(OK, [Storage EXCEPT !.reward_pool = p1, !.coin_balance = t.bal])

pay_bonus_reward_exec(admin_addr, recipient, amount) ==
    IF ~reward_pool.exists THEN Outcome(MISSING_RESOURCE, Storage)
    ELSE IF ~(reward_pool.admin = admin_addr)
         THEN Outcome(RewardError(RS_E_UNAUTHORIZED), Storage)
    ELSE IF ~(amount > 0) THEN Outcome(RewardError(RS_E_INVALID_AMOUNT), Storage)
    ELSE IF ~(reward_pool.balance >= amount)
         THEN Outcome(RewardError(RS_E_INSUFFICIENT_BALANCE), Storage)
    ELSE
    LET t == coin_transfer(coin_balance, admin_addr, recipient, amount) IN
    IF t.code # OK THEN Outcome(t.code, Storage)
    ELSE
    LET p1 == [reward_pool EXCEPT
                 !.balance = @ - amount,
                 !.total_rewards_paid = @ + amount,
                 !.bonus_rewards = Append(@, [recipient |-> recipient, amount |-> amount]),
                 !.bonus_reward_events =
                     Append(@, [recipient |-> recipient, amount |-> amount])]
    IN Outcome(OK, [Storage EXCEPT !.reward_pool = p1, !.coin_balance = t.bal])

\* the index of the first milestone with this id, 0 when the loop finds none
find_milestone(ms, milestone_id) ==
    LET hits == {i \in 1..Len(ms) : ms[i].id = milestone_id}
    IN IF hits = {} THEN 0 ELSE CHOOSE i \in hits : \A j \in hits : i <= j

\* transfer_milestone_reward without the addition to total_rewards_paid
transfer_milestone_reward_uncounted(admin_addr, recipient, milestone_id) ==
    IF ~reward_pool.exists THEN Outcome(MISSING_RESOURCE, Storage)
    ELSE IF ~(reward_pool.admin = admin_addr)
         THEN Outcome(RewardError(RS_E_UNAUTHORIZED), Storage)
    ELSE
    LET i == find_milestone(reward_pool.milestones, milestone_id)
        milestone_found == i # 0
        reward_amount == IF milestone_found THEN reward_pool.milestones[i].reward_amount
                         ELSE 0
    IN
    IF ~milestone_found THEN Outcome(RewardError(RS_E_INVALID_AMOUNT), Storage)
    ELSE IF ~(reward_pool.balance >= reward_amount)
         THEN Outcome(RewardError(RS_E_INSUFFICIENT_BALANCE), Storage)
    ELSE
    LET t == coin_transfer(coin_balance, admin_addr, recipient, reward_amount) IN
    IF t.code # OK THEN Outcome(t.code, Storage)
    ELSE
    LET p1 == [reward_pool EXCEPT !.balance = @ - reward_amount]
    IN Outcome(OK, [Storage EXCEPT !.reward_pool = p1, !.coin_balance = t.bal])

transfer_milestone_reward_exec(admin_addr, recipient, milestone_id) ==
    IF ~reward_pool.exists THEN Outcome(MISSING_RESOURCE, Storage)
    ELSE IF ~(reward_pool.admin = admin_addr)
         THEN Outcome(RewardError(RS_E_UNAUTHORIZED), Storage)
    ELSE
    LET i == find_milestone(reward_pool.milestones, milestone_id)
        milestone_found == i # 0
        reward_amount == IF milestone_found THEN reward_pool.milestones[i].reward_amount
                         ELSE 0
    IN
    IF ~milestone_found THEN Outcome(RewardError(RS_E_INVALID_AMOUNT), Storage)
    ELSE IF ~(reward_pool.balance >= reward_amount)
         THEN Outcome(RewardError(RS_E_INSUFFICIENT_BALANCE), Storage)
    ELSE
    LET t == coin_transfer(coin_balance, admin_addr, recipient, reward_amount) IN
    IF t.code # OK THEN Outcome(t.code, Storage)
    ELSE
    LET p1 == [reward_pool EXCEPT
                 !.balance = @ - reward_amount,
                 !.total_rewards_paid = @ + reward_amount]
    IN Outcome(OK, [Storage EXCEPT !.reward_pool = p1, !.coin_balance = t.bal])

\* initialize_user_achievements without the assertion that none exists yet
initialize_user_achievements_reset(user_addr) ==
    Outcome(OK, [Storage EXCEPT !.user_achievements[user_addr] = NewUserAchievements])

initialize_user_achievements_exec(user_addr) ==
    IF user_achievements[user_addr].exists
    THEN Outcome(RewardError(RS_E_ALREADY_INITIALIZED), Storage)
    ELSE Outcome(OK, [Storage EXCEPT !.user_achievements[user_addr] = NewUserAchievements])

\* vector::contains that never finds the element
contains_never(v, e) == FALSE

\* vector::contains
contains(v, e) == \E i \in 1..Len(v) : v[i] = e

RECURSIVE check_each_inactive(_, _, _, _, _)
\* the loop of check_milestones without the condition on is_active
check_each_inactive(i, pool, ach, user_addr, datasets_uploaded) ==
    IF i > Len(pool.milestones) THEN [pool |-> pool, ach |-> ach]
    ELSE
    LET milestone == pool.milestones[i] IN
    IF /\ ~contains(ach.milestones_achieved, milestone.id)
       /\ datasets_uploaded >= milestone.requirement
       /\ pool.balance >= milestone.reward_amount
    THEN check_each_inactive(i + 1,
             [pool EXCEPT
                !.balance = @ - milestone.reward_amount,
                !.total_rewards_paid = @ + milestone.reward_amount,
                !.milestone_events =
                    Append(@, [user |-> user_addr, milestone_id |-> milestone.id,
                               reward_amount |-> milestone.reward_amount])],
             [ach EXCEPT !.milestones_achieved = Append(@, milestone.id)],
             user_addr, datasets_uploaded)
    ELSE check_each_inactive(i + 1, pool, ach, user_addr, datasets_uploaded)

RECURSIVE check_each_strict(_, _, _, _, _)
\* the loop of check_milestones comparing the upload count with > for >=
check_each_strict(i, pool, ach, user_addr, datasets_uploaded) ==
    IF i > Len(pool.milestones) THEN [pool |-> pool, ach |-> ach]
    ELSE
    LET milestone == pool.milestones[i] IN
    IF /\ milestone.is_active
       /\ ~contains(ach.milestones_achieved, milestone.id)
       /\ datasets_uploaded > milestone.requirement
       /\ pool.balance >= milestone.reward_amount
    THEN check_each_strict(i + 1,
             [pool EXCEPT
                !.balance = @ - milestone.reward_amount,
                !.total_rewards_paid = @ + milestone.reward_amount,
                !.milestone_events =
                    Append(@, [user |-> user_addr, milestone_id |-> milestone.id,
                               reward_amount |-> milestone.reward_amount])],
             [ach EXCEPT !.milestones_achieved = Append(@, milestone.id)],
             user_addr, datasets_uploaded)
    ELSE check_each_strict(i + 1, pool, ach, user_addr, datasets_uploaded)

RECURSIVE check_each_uncovered(_, _, _, _, _)
\* the loop of check_milestones without the condition on the pool balance
check_each_uncovered(i, pool, ach, user_addr, datasets_uploaded) ==
    IF i > Len(pool.milestones) THEN [pool |-> pool, ach |-> ach]
    ELSE
    LET milestone == pool.milestones[i] IN
    IF /\ milestone.is_active
       /\ ~contains(ach.milestones_achieved, milestone.id)
       /\ datasets_uploaded >= milestone.requirement
    THEN check_each_uncovered(i + 1,
             [pool EXCEPT
                !.balance = @ - milestone.reward_amount,
                !.total_rewards_paid = @ + milestone.reward_amount,
                !.milestone_events =
                    Append(@, [user |-> user_addr, milestone_id |-> milestone.id,
                               reward_amount |-> milestone.reward_amount])],
             [ach EXCEPT !.milestones_achieved = Append(@, milestone.id)],
             user_addr, datasets_uploaded)
    ELSE check_each_uncovered(i + 1, pool, ach, user_addr, datasets_uploaded)

RECURSIVE check_each_milestone(_, _, _, _, _)
\* the while loop of check_milestones from index i on: the pool and the
\* user's achievements after it
check_each_milestone(i, pool, ach, user_addr, datasets_uploaded) ==
    IF i > Len(pool.milestones) THEN [pool |-> pool, ach |-> ach]
    ELSE
    LET milestone == pool.milestones[i] IN
    IF /\ milestone.is_active
       /\ ~contains(ach.milestones_achieved, milestone.id)
       /\ datasets_uploaded >= milestone.requirement
       /\ pool.balance >= milestone.reward_amount
    THEN check_each_milestone(i + 1,
             [pool EXCEPT
                !.balance = @ - milestone.reward_amount,
                !.total_rewards_paid = @ + milestone.reward_amount,
                !.milestone_events =
                    Append(@, [user |-> user_addr, milestone_id |-> milestone.id,
                               reward_amount |-> milestone.reward_amount])],
             [ach EXCEPT !.milestones_achieved = Append(@, milestone.id)],
             user_addr, datasets_uploaded)
    ELSE check_each_milestone(i + 1, pool, ach, user_addr, datasets_uploaded)

\* check_milestones crediting the user's coins with the rewards it debits
check_milestones_paying(user_addr, datasets_uploaded) ==
    IF ~reward_pool.exists THEN Outcome(MISSING_RESOURCE, Storage)
    ELSE
    LET a0 == IF user_achievements[user_addr].exists THEN user_achievements[user_addr]
              ELSE NewUserAchievements
        r == check_each_milestone(1, reward_pool, a0, user_addr, datasets_uploaded)
    IN Outcome(OK, [Storage EXCEPT
           !.reward_pool = r.pool,
           !.user_achievements[user_addr] = r.ach,
           !.coin_balance[user_addr] = @ + (reward_pool.balance - r.pool.balance)])

check_milestones_exec(user_addr, datasets_uploaded) ==
    IF ~reward_pool.exists THEN Outcome(MISSING_RESOURCE, Storage)
    ELSE
    LET a0 == IF user_achievements[user_addr].exists THEN user_achievements[user_addr]
              ELSE NewUserAchievements
        r == check_each_milestone(1, reward_pool, a0, user_addr, datasets_uploaded)
    IN Outcome(OK, [Storage EXCEPT !.reward_pool = r.pool,
                                   !.user_achievements[user_addr] = r.ach])

\* replenish_pool without the admin assertion
replenish_pool_open(admin_addr, amount) ==
    IF ~reward_pool.exists THEN Outcome(MISSING_RESOURCE, Storage)
    ELSE IF ~(amount > 0) THEN Outcome(RewardError(RS_E_INVALID_AMOUNT), Storage)
    ELSE
    LET t == coin_transfer(coin_balance, admin_addr, admin_addr, amount) IN
    IF t.code # OK THEN Outcome(t.code, Storage)
    ELSE
    LET p1 == [reward_pool EXCEPT !.balance = @ + amount]
        p2 == [p1 EXCEPT !.pool_replenished_events =
                   Append(@, [amount |-> amount, new_balance |-> p1.balance])]
    IN Outcome(OK, [Storage EXCEPT !.reward_pool = p2, !.coin_balance = t.bal])

\* replenish_pool emitting the balance as it was before the addition
replenish_pool_stale(admin_addr, amount) ==
    IF ~reward_pool.exists THEN Outcome(MISSING_RESOURCE, Storage)
    ELSE IF ~(reward_pool.admin = admin_addr)
         THEN Outcome(RewardError(RS_E_UNAUTHORIZED), Storage)
    ELSE IF ~(amount > 0) THEN Outcome(RewardError(RS_E_INVALID_AMOUNT), Storage)
    ELSE
    LET t == coin_transfer(coin_balance, admin_addr, admin_addr, amount) IN
    IF t.code # OK THEN Outcome(t.code, Storage)
    ELSE
    LET p1 == [reward_pool EXCEPT !.balance = @ + amount]
        p2 == [p1 EXCEPT !.pool_replenished_events =
                   Append(@, [amount |-> amount, new_balance |-> reward_pool.balance])]
    IN Outcome(OK, [Storage EXCEPT !.reward_pool = p2, !.coin_balance = t.bal])

\* replenish_pool taking the amount out of the admin's coins
replenish_pool_depositing(admin_addr, amount) ==
    IF ~reward_pool.exists THEN Outcome(MISSING_RESOURCE, Storage)
    ELSE IF ~(reward_pool.admin = admin_addr)
         THEN Outcome(RewardError(RS_E_UNAUTHORIZED), Storage)
    ELSE IF ~(amount > 0) THEN Outcome(RewardError(RS_E_INVALID_AMOUNT), Storage)
    ELSE
    LET t == coin_transfer(coin_balance, admin_addr, admin_addr, amount) IN
    IF t.code # OK THEN Outcome(t.code, Storage)
    ELSE
    LET p1 == [reward_pool EXCEPT !.balance = @ + amount]
        p2 == [p1 EXCEPT !.pool_replenished_events =
                   Append(@, [amount |-> amount, new_balance |-> p1.balance])]
    IN Outcome(OK, [Storage EXCEPT
                      !.reward_pool = p2,
                      !.coin_balance = [t.bal EXCEPT ![admin_addr] = @ - amount]])

replenish_pool_exec(admin_addr, amount) ==
    IF ~reward_pool.exists THEN Outcome(MISSING_RESOURCE, Storage)
    ELSE IF ~(reward_pool.admin = admin_addr)
         THEN Outcome(RewardError(RS_E_UNAUTHORIZED), Storage)
    ELSE IF ~(amount > 0) THEN Outcome(RewardError(RS_E_INVALID_AMOUNT), Storage)
    ELSE
    LET t == coin_transfer(coin_balance, admin_addr, admin_addr, amount) IN
    IF t.code # OK THEN Outcome(t.code, Storage)
    ELSE
    LET p1 == [reward_pool EXCEPT !.balance = @ + amount]
        p2 == [p1 EXCEPT !.pool_replenished_events =
                   Append(@, [amount |-> amount, new_balance |-> p1.balance])]
    IN Outcome(OK, [Storage EXCEPT !.reward_pool = p2, !.coin_balance = t.bal])

\* deactivate_milestone flipping is_active instead of clearing it
deactivate_milestone_toggle(admin_addr, milestone_id) ==
    IF ~reward_pool.exists THEN Outcome(MISSING_RESOURCE, Storage)
    ELSE IF ~(reward_pool.admin = admin_addr)
         THEN Outcome(RewardError(RS_E_UNAUTHORIZED), Storage)
    ELSE
    LET i == find_milestone(reward_pool.milestones, milestone_id) IN
    IF i = 0 THEN Outcome(OK, Storage)
    ELSE Outcome(OK, [Storage EXCEPT !.reward_pool.milestones[i].is_active = ~@])

deactivate_milestone_exec(admin_addr, milestone_id) ==
    IF ~reward_pool.exists THEN Outcome(MISSING_RESOURCE, Storage)
    ELSE IF ~(reward_pool.admin = admin_addr)
         THEN Outcome(RewardError(RS_E_UNAUTHORIZED), Storage)
    ELSE
    LET i == find_milestone(reward_pool.milestones, milestone_id) IN
    IF i = 0 THEN Outcome(OK, Storage)
    ELSE Outcome(OK, [Storage EXCEPT !.reward_pool.milestones[i].is_active = FALSE])

(* ---------------------------------------------------------------------- *)
(* Transactions                                                            *)
(* ---------------------------------------------------------------------- *)

\* Committed keeping the writes made before an abort
CommittedPartial(r) == r.post

\* what a transaction leaves in storage: the writes of a body that ran to its
\* end, nothing of a body that aborted
Committed(r) == IF r.code = OK THEN r.post ELSE Storage

Commit(r) ==
    LET st == Committed(r)
    IN /\ marketplace' = st.marketplace
       /\ other_marketplaces' = st.other_marketplaces
       /\ user_stats' = st.user_stats
       /\ coin_balance' = st.coin_balance
       /\ reward_pool' = st.reward_pool
       /\ other_reward_pools' = st.other_reward_pools
       /\ user_achievements' = st.user_achievements

initialize(admin, fee, recipient) ==
    LET r == initialize_exec(admin, fee, recipient)
    IN /\ Commit(r)
       /\ last' = Tx("initialize", admin, recipient, 0, fee, r.code)

upload_dataset(account, price) ==
    LET r == upload_dataset_exec(account, price)
    IN /\ marketplace.exists => Len(marketplace.datasets) < MaxDatasets
       /\ Commit(r)
       /\ last' = Tx("upload_dataset", account, account, 0, price, r.code)

purchase_dataset(buyer, dataset_id) ==
    LET r == purchase_dataset_exec(buyer, dataset_id)
    IN /\ Commit(r)
       /\ last' = Tx("purchase_dataset", buyer, buyer, dataset_id, 0, r.code)

deactivate_dataset(owner, dataset_id) ==
    LET r == deactivate_dataset_exec(owner, dataset_id)
    IN /\ Commit(r)
       /\ last' = Tx("deactivate_dataset", owner, owner, dataset_id, 0, r.code)

update_dataset_price(owner, dataset_id, new_price) ==
    LET r == update_dataset_price_exec(owner, dataset_id, new_price)
    IN /\ Commit(r)
       /\ last' = Tx("update_dataset_price", owner, owner, dataset_id, new_price, r.code)

initialize_reward_system(admin, initial_balance) ==
    LET r == initialize_reward_system_exec(admin, initial_balance)
    IN /\ Commit(r)
       /\ last' = Tx("initialize_reward_system", admin, admin, 0, initial_balance, r.code)

add_milestone(admin, requirement, reward_amount) ==
    LET r == add_milestone_exec(admin, requirement, reward_amount)
    IN /\ reward_pool.exists => Len(reward_pool.milestones) < MaxMilestones
       /\ Commit(r)
       /\ last' = Tx("add_milestone", admin, admin, requirement, reward_amount, r.code)

pay_bonus_reward(admin, recipient, amount) ==
    LET r == pay_bonus_reward_exec(admin, recipient, amount)
    IN /\ Commit(r)
       /\ last' = Tx("pay_bonus_reward", admin, recipient, 0, amount, r.code)

transfer_milestone_reward(admin, recipient, milestone_id) ==
    LET r == transfer_milestone_reward_exec(admin, recipient, milestone_id)
    IN /\ Commit(r)
       /\ last' = Tx("transfer_milestone_reward", admin, recipient, milestone_id, 0, r.code)

initialize_user_achievements(user) ==
    LET r == initialize_user_achievements_exec(user)
    IN /\ Commit(r)
       /\ last' = Tx("initialize_user_achievements", user, user, 0, 0, r.code)

check_milestones(user, datasets_uploaded) ==
    LET r == check_milestones_exec(user, datasets_uploaded)
    IN /\ Commit(r)
       /\ last' = Tx("check_milestones", user, user, 0, datasets_uploaded, r.code)

replenish_pool(admin, amount) ==
    LET r == replenish_pool_exec(admin, amount)
    IN /\ reward_pool.exists => Len(reward_pool.pool_replenished_events) < MaxReplenish
       /\ Commit(r)
       /\ last' = Tx("replenish_pool", admin, admin, 0, amount, r.code)

deactivate_milestone(admin, milestone_id) ==
    LET r == deactivate_milestone_exec(admin, milestone_id)
    IN /\ Commit(r)
       /\ last' = Tx("deactivate_milestone", admin, admin, milestone_id, 0, r.code)

Init ==
    /\ marketplace = NoResource
    /\ other_marketplaces = {}
    /\ user_stats = [a \in Address |-> NoResource]
    /\ coin_balance = InitialCoins
    /\ reward_pool = NoResource
    /\ other_reward_pools = {}
    /\ user_achievements = [a \in Address |-> NoResource]
    /\ last = Tx("none", DataDex, DataDex, 0, 0, OK)

Next ==
    \/ \E a \in Initializers, f \in FeePercentages, t \in FeeRecipients : initialize(a, f, t)
    \/ \E a \in Uploaders, p \in UploadPrices : upload_dataset(a, p)
    \/ \E a \in Registered, d \in DatasetIds : purchase_dataset(a, d)
    \/ \E a \in Managers, d \in DatasetIds : deactivate_dataset(a, d)
    \/ \E a \in Managers, d \in DatasetIds, p \in NewPrices :
           update_dataset_price(a, d, p)

Spec == Init /\ [][Next]_vars

\* the RewardSystem module alone
RewardNext ==
    \/ \E a \in PoolAdmins, b \in InitialBalances : initialize_reward_system(a, b)
    \/ \E a \in PoolAdmins, q \in Requirements, w \in RewardAmounts : add_milestone(a, q, w)
    \/ \E a \in PoolAdmins, t \in Recipients, w \in BonusAmounts : pay_bonus_reward(a, t, w)
    \/ \E a \in PoolAdmins, t \in Recipients, m \in MilestoneIds :
           transfer_milestone_reward(a, t, m)
    \/ \E u \in Achievers : initialize_user_achievements(u)
    \/ \E u \in Achievers, n \in UploadCounts : check_milestones(u, n)
    \/ \E a \in PoolAdmins, w \in ReplenishAmounts : replenish_pool(a, w)
    \/ \E a \in PoolAdmins, m \in MilestoneIds : deactivate_milestone(a, m)

RewardSpec == Init /\ [][RewardNext]_vars

\* the split of purchase_dataset over a range of prices and every allowed
\* percentage: alice has listed dataset 1 at the price, bob holds enough to buy
\* it, the fee goes to @DataDex
SplitPrices == {1, 19, 20, 99, 100, 101, 30000030, 50000000, 100000000}

SplitInit ==
    \E price \in SplitPrices, pct \in 0..20 :
        /\ marketplace =
               [NewMarketplace(pct, DataDex) EXCEPT
                  !.datasets = << Dataset(1, price, "alice") >>,
                  !.next_dataset_id = 2,
                  !.dataset_uploaded_events =
                      << [dataset_id |-> 1, owner |-> "alice", price |-> price] >>]
        /\ other_marketplaces = {}
        /\ user_stats = [a \in Address |->
               IF a = "alice" THEN [NewUserStats EXCEPT !.datasets_uploaded = 1]
               ELSE NoResource]
        /\ coin_balance = [a \in Address |-> IF a = "bob" THEN 100000000 ELSE 0]
        /\ reward_pool = NoResource
        /\ other_reward_pools = {}
        /\ user_achievements = [a \in Address |-> NoResource]
        /\ last = Tx("upload_dataset", "alice", "alice", 0, price, OK)

SplitNext == purchase_dataset("bob", 1)

SplitSpec == SplitInit /\ [][SplitNext]_vars

\* the accounts whose milestones are checked and rewarded in AchieverSpec
Evaluated == {"alice", "bob"}

\* the RewardSystem module with two users: the pool of @DataDex, the checks
\* of both users with every upload count, and the admin's transfers of the
\* second milestone's reward to them
AchieverNext ==
    \/ initialize_reward_system(DataDex, 6000000)
    \/ \E u \in Evaluated : initialize_user_achievements(u)
    \/ \E u \in Evaluated, n \in UploadCounts : check_milestones(u, n)
    \/ \E a \in PoolAdmins, t \in Evaluated : transfer_milestone_reward(a, t, 2)
    \/ replenish_pool(DataDex, 5000000)
    \/ \E m \in {1, 2} : deactivate_milestone(DataDex, m)

AchieverSpec == Init /\ [][AchieverNext]_vars

\* the bonus payments of the RewardSystem module with every account as
\* recipient, the admin's own included
BonusNext ==
    \/ \E b \in InitialBalances : initialize_reward_system(DataDex, b)
    \/ \E a \in PoolAdmins, t \in Address, w \in BonusAmounts : pay_bonus_reward(a, t, w)
    \/ \E w \in ReplenishAmounts : replenish_pool(DataDex, w)

BonusSpec == Init /\ [][BonusNext]_vars

\* uploads, purchases by two buyers and price changes on one marketplace,
\* beside a reward pool that is replenished
EventNext ==
    \/ initialize(DataDex, 5, DataDex)
    \/ \E p \in UploadPrices : upload_dataset("alice", p)
    \/ \E a \in {DataDex, "bob"}, d \in DatasetIds : purchase_dataset(a, d)
    \/ \E d \in DatasetIds : update_dataset_price("alice", d, 50000000)
    \/ initialize_reward_system(DataDex, 6000000)
    \/ \E a \in PoolAdmins, w \in ReplenishAmounts : replenish_pool(a, w)

EventSpec == Init /\ [][EventNext]_vars

\* both modules on one ledger, sharing the coin balances: one dataset, one
\* achiever, and of every function a call that commits and a call that aborts
LedgerNext ==
    \/ \E f \in {5, 21} : initialize(DataDex, f, DataDex)
    \/ \E a \in Uploaders, p \in UploadPrices :
           /\ marketplace.exists => marketplace.datasets = << >>
           /\ upload_dataset(a, p)
    \/ \E a \in {"alice", "bob"} : purchase_dataset(a, 1)
    \/ \E a \in {"alice", "bob"} : deactivate_dataset(a, 1)
    \/ \E p \in NewPrices : update_dataset_price("alice", 1, p)
    \/ \E a \in PoolAdmins : initialize_reward_system(a, 6000000)
    \/ \E w \in RewardAmounts : add_milestone(DataDex, 2, w)
    \/ \E t \in Recipients : pay_bonus_reward(DataDex, t, 3000000)
    \/ \E a \in PoolAdmins : transfer_milestone_reward(a, "alice", 2)
    \/ initialize_user_achievements("alice")
    \/ check_milestones("alice", 10)
    \/ \E w \in {0, 5000000} : replenish_pool(DataDex, w)
    \/ \E a \in PoolAdmins : deactivate_milestone(a, 2)

LedgerSpec == Init /\ [][LedgerNext]_vars

(* ---------------------------------------------------------------------- *)
(* Properties                                                              *)
(* ---------------------------------------------------------------------- *)

\* everything a transaction can write
ledger == <<marketplace, other_marketplaces, user_stats, coin_balance,
            reward_pool, other_reward_pools, user_achievements>>

datasets == IF marketplace.exists THEN marketplace.datasets ELSE << >>
purchases == IF marketplace.exists THEN marketplace.purchases ELSE << >>

\* the Purchase records of one dataset, as indices into purchases
purchases_of(dataset_id) ==
    {i \in 1..Len(purchases) : purchases[i].dataset_id = dataset_id}

\* C1: no two Purchase records have the same (buyer, datasetId), in every
\* state any sequence of initialize, upload_dataset, update_dataset_price,
\* deactivate_dataset and purchase_dataset calls, committed or aborted, reaches.
C1_UniquePurchase ==
    \A i, j \in 1..Len(purchases) :
        (purchases[i].buyer = purchases[j].buyer
         /\ purchases[i].dataset_id = purchases[j].dataset_id) => i = j

\* one buyer holds two datasets, one dataset has two buyers, and a repeated
\* purchase was just refused
C1_Witness ==
    /\ \E i, j \in 1..Len(purchases) :
          i # j /\ purchases[i].buyer = purchases[j].buyer
    /\ \E i, j \in 1..Len(purchases) :
          i # j /\ purchases[i].dataset_id = purchases[j].dataset_id
    /\ last.op = "purchase_dataset"
    /\ last.code = MarketError(E_DATASET_ALREADY_PURCHASED)

\* C2: every dataset's total_purchases equals the number of Purchase records
\* that carry its id.
C2_TotalPurchases ==
    \A k \in 1..Len(datasets) :
        datasets[k].total_purchases = Cardinality(purchases_of(datasets[k].id))

\* a dataset bought twice beside one never bought
C2_Witness ==
    /\ \E k \in 1..Len(datasets) : datasets[k].total_purchases = 2
    /\ \E k \in 1..Len(datasets) : datasets[k].total_purchases = 0
    /\ Len(purchases) = 2

\* C3: the split purchase_dataset pays out is fee = floor(price * feePercent
\* / 100) to the fee recipient and price - fee to the seller, for every price
\* of SplitPrices and every feePercent in 0..20: the two add up to the price,
\* which is what the buyer loses, and the fee is never rounded up; price
\* 50_000_000 at 5% gives 2_500_000 and 47_500_000.  (Under SplitSpec the
\* recipient @DataDex and the seller alice start with no coins, bob with
\* 100_000_000.)
C3_SplitExact ==
    Len(purchases) = 1 =>
        LET price == purchases[1].price
            pct == marketplace.platform_fee_percentage
            fee == coin_balance[DataDex]
            sellerAmount == coin_balance["alice"]
        IN /\ price = datasets[1].price
           /\ 100 * fee <= price * pct
           /\ price * pct < 100 * (fee + 1)
           /\ sellerAmount = price - fee
           /\ fee + sellerAmount = price
           /\ coin_balance["bob"] = 100000000 - price
           /\ marketplace.reward_paid_events[1].amount = sellerAmount
           /\ (price = 50000000 /\ pct = 5) =>
                  (fee = 2500000 /\ sellerAmount = 47500000)

\* a purchase whose exact fee is not whole: the fee paid is below it
C3_Witness ==
    /\ Len(purchases) = 1
    /\ last = Tx("purchase_dataset", "bob", "bob", 1, 0, OK)
    /\ (purchases[1].price * marketplace.platform_fee_percentage) % 100 >= 50
    /\ coin_balance[DataDex] > 0

\* the dataset a transaction names, when there is one with that id
has_dataset(dataset_id) == find_dataset_by_id(datasets, dataset_id) # 0
dataset_of(dataset_id) == datasets[find_dataset_by_id(datasets, dataset_id)]

RECURSIVE net_flow(_, _)
\* what the Purchase records ps say address a has received less what it paid
net_flow(ps, a) ==
    IF ps = << >> THEN 0
    ELSE LET p == Head(ps)
             fee == platform_fee_of(p.price, marketplace.platform_fee_percentage)
         IN (IF p.seller = a THEN p.price - fee ELSE 0)
            + (IF marketplace.platform_fee_recipient = a THEN fee ELSE 0)
            - (IF p.buyer = a THEN p.price ELSE 0)
            + net_flow(Tail(ps), a)

\* every account holds what it started with plus what the Purchase records
\* account for: no transfer stands without its Purchase and its twin
C4_Accounting ==
    \A a \in Address : coin_balance[a] = InitialCoins[a] + net_flow(purchases, a)

C4_Step ==
    last'.op = "purchase_dataset" =>
        LET b == last'.caller
            d == last'.id
        IN IF last'.code = OK
           THEN LET price == dataset_of(d).price
                    seller == dataset_of(d).owner
                    recipient == marketplace.platform_fee_recipient
                    fee == (price * marketplace.platform_fee_percentage) \div 100
                IN /\ coin_balance' =
                          [a \in Address |->
                              coin_balance[a]
                              - (IF a = b THEN price ELSE 0)
                              + (IF a = recipient THEN fee ELSE 0)
                              + (IF a = seller THEN price - fee ELSE 0)]
                   /\ marketplace'.purchases =
                          Append(marketplace.purchases, Purchase(d, b, seller, price))
           ELSE UNCHANGED ledger

\* C4: the payment of a purchase is all-or-nothing.  A purchase_dataset that
\* commits moves exactly the fee to the fee recipient and exactly price - fee
\* to the seller in the step that appends the Purchase; one that aborts, also
\* inside coin::transfer, leaves funds, purchases, counters and stats as they
\* were; and no reachable state shows a transfer without its twin.
C4_AllOrNothing == []C4_Accounting /\ [][C4_Step]_vars

\* a purchase that aborted in the transfer to the seller, after the transfer
\* of the fee had gone through, beside a purchase that committed
C4_Witness ==
    /\ last.op = "purchase_dataset"
    /\ last.code = COIN_ECOIN_STORE_NOT_PUBLISHED
    /\ has_dataset(last.id)
    /\ dataset_of(last.id).owner \notin Registered
    /\ marketplace.platform_fee_recipient \in Registered
    /\ platform_fee_of(dataset_of(last.id).price, marketplace.platform_fee_percentage) > 0
    /\ Len(purchases) = 1

C5_Step ==
    (last'.op = "purchase_dataset"
     /\ has_purchased_dataset(purchases, last'.caller, last'.id)) =>
        /\ last'.code # OK
        /\ UNCHANGED ledger
        /\ dataset_of(last'.id).is_active =>
               last'.code = MarketError(E_DATASET_ALREADY_PURCHASED)
        /\ last = Tx("purchase_dataset", last'.caller, last'.caller, last'.id, 0, OK) =>
               last'.code = MarketError(E_DATASET_ALREADY_PURCHASED)

\* C5: a purchase_dataset by a buyer who already holds a Purchase of that
\* dataset aborts and changes nothing: purchases, total_purchases, UserStats
\* and funds stay as the first purchase left them.  The code is
\* E_DATASET_ALREADY_PURCHASED when the call follows the first purchase
\* directly, and whenever the dataset is still active.
C5_SecondPurchase == [][C5_Step]_vars

\* the second call was just refused; the ledger shows one purchase, paid once
C5_Witness ==
    /\ last.op = "purchase_dataset"
    /\ last.code = MarketError(E_DATASET_ALREADY_PURCHASED)
    /\ Len(purchases) = 1
    /\ purchases[1].buyer = last.caller
    /\ dataset_of(last.id).total_purchases = 1
    /\ user_stats[last.caller].datasets_purchased = 1
    /\ coin_balance[last.caller] = InitialCoins[last.caller] - purchases[1].price

\* a purchase_dataset whose buyer owns the dataset it names
self_purchase(tx) ==
    tx.op = "purchase_dataset" /\ has_dataset(tx.id) /\ dataset_of(tx.id).owner = tx.caller

\* C6 as stated: a purchase by the dataset's owner aborts with E_UNAUTHORIZED
\* in every state of the dataset, active or deactivated, and changes nothing.
C6_SelfPurchaseUnauthorized ==
    [][self_purchase(last') =>
          (last'.code = MarketError(E_UNAUTHORIZED) /\ UNCHANGED ledger)]_vars

\* C6 amended: a purchase by the dataset's owner always aborts and changes
\* nothing; the code is E_UNAUTHORIZED while the dataset is active and
\* E_DATASET_NOT_FOUND once it is deactivated, whoever else has bought it and
\* whatever the owner holds.
C6_SelfPurchaseFails ==
    [][self_purchase(last') =>
          /\ UNCHANGED ledger
          /\ last'.code = IF dataset_of(last'.id).is_active
                          THEN MarketError(E_UNAUTHORIZED)
                          ELSE MarketError(E_DATASET_NOT_FOUND)]_vars

\* the owner was refused on a deactivated dataset another account had bought
C6_Witness ==
    /\ self_purchase(last)
    /\ last.code = MarketError(E_DATASET_NOT_FOUND)
    /\ ~dataset_of(last.id).is_active
    /\ dataset_of(last.id).total_purchases = 1

C7_Step ==
    /\ (last'.op = "purchase_dataset" /\ has_dataset(last'.id)
        /\ ~dataset_of(last'.id).is_active) =>
           (last'.code = MarketError(E_DATASET_NOT_FOUND) /\ UNCHANGED ledger)
    /\ \A k \in 1..Len(datasets) :
           ~datasets[k].is_active =>
               /\ Len(datasets') >= k
               /\ datasets'[k].id = datasets[k].id
               /\ ~datasets'[k].is_active
               /\ datasets'[k].total_purchases = datasets[k].total_purchases
               /\ purchases_of(datasets[k].id)' = purchases_of(datasets[k].id)

\* C7: once a dataset is deactivated, every purchase_dataset on it, by any
\* buyer, aborts with E_DATASET_NOT_FOUND and changes nothing, and no step of
\* any kind reactivates it or adds to its Purchase records or its
\* total_purchases.
C7_DeactivatedStaysClosed == [][C7_Step]_vars

\* a deactivated dataset with one purchase from before, and a buyer who has
\* the funds and no Purchase of it, just refused
C7_Witness ==
    /\ last.op = "purchase_dataset"
    /\ last.code = MarketError(E_DATASET_NOT_FOUND)
    /\ has_dataset(last.id)
    /\ ~dataset_of(last.id).is_active
    /\ dataset_of(last.id).total_purchases = 1
    /\ dataset_of(last.id).owner # last.caller
    /\ ~has_purchased_dataset(purchases, last.caller, last.id)
    /\ coin_balance[last.caller] >= dataset_of(last.id).price

C8_Step ==
    /\ (last'.op = "purchase_dataset" /\ has_dataset(last'.id)
        /\ coin_balance[last'.caller] < dataset_of(last'.id).price) =>
           /\ last'.code # OK
           /\ UNCHANGED ledger
           /\ (/\ dataset_of(last'.id).is_active
               /\ dataset_of(last'.id).owner # last'.caller
               /\ ~has_purchased_dataset(purchases, last'.caller, last'.id)) =>
                  last'.code = MarketError(E_INSUFFICIENT_BALANCE)
    /\ purchases' # purchases =>
           /\ Len(purchases') = Len(purchases) + 1
           /\ coin_balance[purchases'[Len(purchases')].buyer]
                  >= purchases'[Len(purchases')].price

\* C8: a purchase_dataset by a buyer who holds less than the dataset's
\* current price aborts and moves no funds, records no Purchase and changes
\* no counter; when the dataset is active, is not the buyer's own and was not
\* bought by them before, the code is E_INSUFFICIENT_BALANCE.  Every Purchase
\* is appended in a step whose buyer held at least its price.
C8_InsufficientFunds == [][C8_Step]_vars

\* a buyer with some coins, but fewer than the price, was just refused
C8_Witness ==
    /\ last.op = "purchase_dataset"
    /\ last.code = MarketError(E_INSUFFICIENT_BALANCE)
    /\ coin_balance[last.caller] > 0
    /\ coin_balance[last.caller] < dataset_of(last.id).price
    /\ Len(purchases) = 1

RECURSIVE spent_by(_, _)
\* the prices of the Purchase records of ps with buyer b, summed
spent_by(ps, b) ==
    IF ps = << >> THEN 0
    ELSE (IF Head(ps).buyer = b THEN Head(ps).price ELSE 0) + spent_by(Tail(ps), b)

\* each (buyer, dataset) has at most one Purchase, and each buyer's
\* total_spent is what those Purchases cost: nothing is charged twice
C10_ChargedOnce ==
    \A b \in Address :
        /\ \A d \in DatasetIds :
               Cardinality({i \in purchases_of(d) : purchases[i].buyer = b}) <= 1
        /\ user_stats[b].exists => user_stats[b].total_spent = spent_by(purchases, b)

C10_Step ==
    last'.op = "purchase_dataset" =>
        LET b == last'.caller
            d == last'.id
        IN /\ last'.code = OK =>
                  /\ ~has_purchased_dataset(purchases, b, d)
                  /\ dataset_of(d).is_active
                  /\ Len(purchases') = Len(purchases) + 1
                  /\ coin_balance[b] - coin_balance'[b] <= dataset_of(d).price
           /\ (has_dataset(d)
               /\ (has_purchased_dataset(purchases, b, d) \/ ~dataset_of(d).is_active)) =>
                  /\ last'.code \in {MarketError(E_DATASET_ALREADY_PURCHASED),
                                     MarketError(E_DATASET_NOT_FOUND)}
                  /\ coin_balance' = coin_balance
                  /\ purchases' = purchases

\* C10: transactions execute one at a time, so two purchase_dataset calls
\* for the same (buyer, dataset), or a purchase_dataset and a
\* deactivate_dataset of the same dataset, take effect in one of the two
\* orders: the call that comes second sees the Purchase or the deactivation
\* and aborts with E_DATASET_ALREADY_PURCHASED or E_DATASET_NOT_FOUND without
\* moving funds; at most one Purchase results and the buyer pays once.
C10_Serial == []C10_ChargedOnce /\ [][C10_Step]_vars

\* the purchase came before the deactivation; the same buyer's second call,
\* after it, was refused, and the buyer has paid once
C10_Witness ==
    /\ last.op = "purchase_dataset"
    /\ last.code = MarketError(E_DATASET_NOT_FOUND)
    /\ has_dataset(last.id)
    /\ ~dataset_of(last.id).is_active
    /\ has_purchased_dataset(purchases, last.caller, last.id)
    /\ user_stats[last.caller].total_spent = dataset_of(last.id).price
    /\ user_stats[last.caller].datasets_purchased = 1

\* a deactivate_dataset or update_dataset_price call
manages(tx) == tx.op \in {"deactivate_dataset", "update_dataset_price"}

\* a dataset's price or is_active differs after the step only when the step
\* is a committed deactivate_dataset or update_dataset_price of that dataset,
\* called by its owner
C11_OwnerOnly ==
    \A k \in 1..Len(datasets) :
        (Len(datasets') >= k
         /\ (datasets'[k].price # datasets[k].price
             \/ datasets'[k].is_active # datasets[k].is_active)) =>
           /\ manages(last')
           /\ last'.code = OK
           /\ last'.id = datasets[k].id
           /\ last'.caller = datasets[k].owner

\* C11 as stated: price and is_active change only in a step of the owner;
\* deactivate_dataset and update_dataset_price by any other caller abort with
\* E_UNAUTHORIZED and change nothing, and on an id no dataset carries they
\* abort with E_DATASET_NOT_FOUND, whatever the new price is.
C11_ManageUnauthorized ==
    [][/\ C11_OwnerOnly
       /\ (manages(last') /\ has_dataset(last'.id)
           /\ dataset_of(last'.id).owner # last'.caller) =>
              (last'.code = MarketError(E_UNAUTHORIZED) /\ UNCHANGED ledger)
       /\ (manages(last') /\ marketplace.exists /\ ~has_dataset(last'.id)) =>
              last'.code = MarketError(E_DATASET_NOT_FOUND)]_vars

\* the code a deactivate_dataset or update_dataset_price that does not come
\* from the owner of an existing dataset aborts with: the price assertion of
\* update_dataset_price precedes its lookup and its owner assertion
manage_refusal(tx, found) ==
    IF tx.op = "update_dataset_price" /\ ~(tx.amount > 0)
    THEN MarketError(E_INVALID_PRICE)
    ELSE IF found THEN MarketError(E_UNAUTHORIZED)
    ELSE MarketError(E_DATASET_NOT_FOUND)

\* C11 amended: price and is_active change only in a step of the owner;
\* deactivate_dataset and update_dataset_price by any other caller abort and
\* change nothing, with E_UNAUTHORIZED unless update_dataset_price is given a
\* new price of 0, which aborts with E_INVALID_PRICE first; on an id no
\* dataset of the marketplace carries they abort with E_DATASET_NOT_FOUND,
\* again unless the new price is 0.
C11_ManageRefused ==
    [][/\ C11_OwnerOnly
       /\ (manages(last') /\ has_dataset(last'.id)
           /\ dataset_of(last'.id).owner # last'.caller) =>
              (last'.code = manage_refusal(last', TRUE) /\ UNCHANGED ledger)
       /\ (manages(last') /\ marketplace.exists /\ ~has_dataset(last'.id)) =>
              (last'.code = manage_refusal(last', FALSE) /\ UNCHANGED ledger)]_vars

\* the owner has re-priced one dataset and deactivated another, and an
\* account that owns neither was just refused a new price of 0
C11_Witness ==
    /\ last.op = "update_dataset_price"
    /\ last.amount = 0
    /\ last.code = MarketError(E_INVALID_PRICE)
    /\ has_dataset(last.id)
    /\ dataset_of(last.id).owner # last.caller
    /\ \E k \in 1..Len(datasets) : datasets[k].price \in NewPrices
    /\ \E k \in 1..Len(datasets) : ~datasets[k].is_active

C12_PricesPositive ==
    /\ \A k \in 1..Len(datasets) : datasets[k].price > 0
    /\ \A i \in 1..Len(purchases) : purchases[i].price > 0

C12_Step ==
    (last'.op \in {"upload_dataset", "update_dataset_price"} /\ ~(last'.amount > 0)) =>
        (last'.code = MarketError(E_INVALID_PRICE) /\ UNCHANGED ledger)

\* C12: in every state the price of every dataset and of every Purchase
\* record is greater than 0; upload_dataset and update_dataset_price called
\* with a price of 0 abort with E_INVALID_PRICE, whoever calls them and
\* whatever id they name, and change nothing.
C12_PositivePrice == []C12_PricesPositive /\ [][C12_Step]_vars

\* the owner of a dataset that was re-priced and then bought at the new price
\* was just refused a price of 0 for it
C12_Witness ==
    /\ last.op = "update_dataset_price"
    /\ last.amount = 0
    /\ last.code = MarketError(E_INVALID_PRICE)
    /\ has_dataset(last.id)
    /\ dataset_of(last.id).owner = last.caller
    /\ dataset_of(last.id).price \in NewPrices
    /\ \E i \in purchases_of(last.id) : purchases[i].price \in NewPrices

C13_Sequential ==
    marketplace.exists =>
        /\ marketplace.next_dataset_id = Len(datasets) + 1
        /\ \A k \in 1..Len(datasets) : datasets[k].id = k

C13_Step ==
    /\ Len(datasets') >= Len(datasets)
    /\ \A k \in 1..Len(datasets) :
           /\ datasets'[k].id = datasets[k].id
           /\ datasets'[k].owner = datasets[k].owner
    /\ (last'.op = "upload_dataset" /\ last'.code = OK) =>
           /\ Len(datasets') = Len(datasets) + 1
           /\ datasets'[Len(datasets')].id = Len(datasets) + 1
           /\ datasets'[Len(datasets')].owner = last'.caller
    /\ (last'.op = "upload_dataset" /\ last'.code # OK) => UNCHANGED ledger
    /\ ~(last'.op = "upload_dataset" /\ last'.code = OK) =>
           (marketplace.exists =>
               /\ Len(datasets') = Len(datasets)
               /\ marketplace'.next_dataset_id = marketplace.next_dataset_id)

\* C13: dataset ids are 1, 2, 3, ... in the order of the committed
\* upload_dataset calls: the k-th dataset carries id k, next_dataset_id is the
\* number of datasets plus one, an aborted upload_dataset leaves it as it was,
\* and no step changes the id or the owner of a dataset that exists.
C13_SequentialIds == []C13_Sequential /\ [][C13_Step]_vars

\* a second dataset was just listed, by another owner than the first, after
\* the first one was re-priced, bought and deactivated
C13_Witness ==
    /\ last.op = "upload_dataset"
    /\ last.code = OK
    /\ Len(datasets) = 2
    /\ datasets[2].id = 2
    /\ datasets[2].owner = last.caller
    /\ datasets[1].owner # last.caller
    /\ datasets[1].price \in NewPrices
    /\ datasets[1].total_purchases > 0
    /\ ~datasets[1].is_active

(* ---------------------------------------------------------------------- *)
(* View functions of the Marketplace module, on an initialized marketplace *)
(* An Option is the sequence of its zero or one elements.                  *)
(* ---------------------------------------------------------------------- *)

get_dataset_count(m) == Len(m.datasets)

\* get_dataset_by_id answering with the first dataset when the id is not found
get_dataset_by_id_first(m, dataset_id) ==
    LET index == find_dataset_by_id(m.datasets, dataset_id)
    IN IF index # 0 THEN << m.datasets[index] >>
       ELSE IF m.datasets # << >> THEN << m.datasets[1] >> ELSE << >>

get_dataset_by_id(m, dataset_id) ==
    LET index == find_dataset_by_id(m.datasets, dataset_id)
    IN IF index # 0 THEN << m.datasets[index] >> ELSE << >>

get_datasets_by_owner(m, owner) ==
    SelectSeq(m.datasets, LAMBDA dataset : dataset.owner = owner)

get_active_datasets(m) ==
    SelectSeq(m.datasets, LAMBDA dataset : dataset.is_active)

get_platform_stats(m) ==
    [total_datasets |-> Len(m.datasets),
     total_purchases |-> Len(m.purchases),
     active_datasets |-> Len(get_active_datasets(m))]

\* the elements of a sequence
elements(s) == {s[i] : i \in 1..Len(s)}

\* what the views say of the dataset at index k of marketplace m when it is
\* deactivated: found by id and listed under its owner with is_active false,
\* absent from the active list, counted in the total but not as active
soft_deleted(m, k) ==
    LET dataset == m.datasets[k] IN
    /\ get_dataset_by_id(m, dataset.id) = << dataset >>
    /\ dataset \in elements(get_datasets_by_owner(m, dataset.owner))
    /\ dataset \notin elements(get_active_datasets(m))
    /\ \A a \in elements(get_active_datasets(m)) : a.id # dataset.id
    /\ get_platform_stats(m).total_datasets = Len(m.datasets)
    /\ get_platform_stats(m).active_datasets =
           Cardinality({j \in 1..Len(m.datasets) : m.datasets[j].is_active})
    /\ get_platform_stats(m).active_datasets < get_platform_stats(m).total_datasets

C14_Views ==
    \A k \in 1..Len(datasets) : ~datasets[k].is_active => soft_deleted(marketplace, k)

C14_Step ==
    /\ Len(datasets') >= Len(datasets)
    /\ \A k \in 1..Len(datasets) : datasets'[k].id = datasets[k].id
    /\ (last'.op = "deactivate_dataset" /\ last'.code = OK) =>
           LET k == find_dataset_by_id(datasets, last'.id) IN
           /\ datasets' = [datasets EXCEPT ![k].is_active = FALSE]
           /\ get_platform_stats(marketplace').total_datasets =
                  get_platform_stats(marketplace).total_datasets
           /\ get_platform_stats(marketplace').active_datasets =
                  get_platform_stats(marketplace).active_datasets
                  - (IF datasets[k].is_active THEN 1 ELSE 0)
           /\ get_datasets_by_owner(marketplace', datasets[k].owner) =
                  [i \in 1..Len(get_datasets_by_owner(marketplace, datasets[k].owner)) |->
                     LET d == get_datasets_by_owner(marketplace, datasets[k].owner)[i]
                     IN IF d.id = last'.id THEN [d EXCEPT !.is_active = FALSE] ELSE d]

\* C14: deactivate_dataset never removes a dataset: no step shortens the
\* dataset vector or moves a dataset; a committed deactivate_dataset changes
\* only the is_active flag of its dataset; a deactivated dataset is returned by
\* get_dataset_by_id and by get_datasets_by_owner, is not returned by
\* get_active_datasets, and get_platform_stats counts it in total_datasets but
\* not in active_datasets.
C14_SoftDelete == []C14_Views /\ [][C14_Step]_vars

\* the owner just deactivated the first of their two datasets, one that had
\* been bought; the other one is still active
C14_Witness ==
    /\ last.op = "deactivate_dataset"
    /\ last.code = OK
    /\ Len(datasets) = 2
    /\ last.id = 1
    /\ ~datasets[1].is_active
    /\ datasets[1].total_purchases > 0
    /\ datasets[2].is_active
    /\ datasets[2].owner = datasets[1].owner
    /\ get_platform_stats(marketplace).total_datasets = 2
    /\ get_platform_stats(marketplace).active_datasets = 1

\* exists<DataMarketplace>(addr)
marketplace_exists(addr) ==
    IF addr = DataDex THEN marketplace.exists ELSE addr \in other_marketplaces

C15_FeeBounded ==
    marketplace.exists => marketplace.platform_fee_percentage \in 0..20

\* the fee settings of the marketplace, once published, stay as they are
C15_Settings ==
    marketplace.exists =>
        /\ marketplace'.exists
        /\ marketplace'.platform_fee_percentage = marketplace.platform_fee_percentage
        /\ marketplace'.platform_fee_recipient = marketplace.platform_fee_recipient

\* C15 as stated: the fee percentage is within 0..20 in every state, an
\* initialize with a percentage above 20 aborts, every initialize after the
\* first committed one aborts with E_ALREADY_INITIALIZED, and no step changes
\* the percentage or the recipient.
C15_InitializedOnce ==
    /\ []C15_FeeBounded
    /\ [][/\ C15_Settings
          /\ (last'.op = "initialize" /\ last'.amount > 20) =>
                 (last'.code # OK /\ UNCHANGED ledger)
          /\ (last'.op = "initialize"
              /\ (marketplace.exists \/ other_marketplaces # {})) =>
                 (last'.code = MarketError(E_ALREADY_INITIALIZED)
                  /\ UNCHANGED ledger)]_vars

\* C15 amended: the fee percentage of the marketplace is within 0..20 in
\* every state and no step changes it or the recipient; an initialize with a
\* percentage above 20 aborts and changes nothing; an initialize by a signer
\* that has published a DataMarketplace aborts with E_ALREADY_INITIALIZED; an
\* initialize by any other signer with a percentage of at most 20 commits and
\* publishes a DataMarketplace under that signer's own address, which leaves
\* the one at @DataDex, the one every function works on, as it was.
C15_InitializedOncePerSigner ==
    /\ []C15_FeeBounded
    /\ [][/\ C15_Settings
          /\ (last'.op = "initialize" /\ last'.amount > 20) =>
                 (last'.code # OK /\ UNCHANGED ledger)
          /\ (last'.op = "initialize" /\ marketplace_exists(last'.caller)) =>
                 (last'.code = MarketError(E_ALREADY_INITIALIZED)
                  /\ UNCHANGED ledger)
          /\ (last'.op = "initialize" /\ ~marketplace_exists(last'.caller)
              /\ last'.amount <= 20) =>
                 /\ last'.code = OK
                 /\ IF last'.caller = DataDex THEN marketplace'.exists
                    ELSE last'.caller \in other_marketplaces'
                 /\ last'.caller # DataDex => UNCHANGED marketplace]_vars

\* another signer just initialized a marketplace of their own, with another
\* percentage, while the one at @DataDex was in use
C15_Witness ==
    /\ last.op = "initialize"
    /\ last.code = OK
    /\ last.caller # DataDex
    /\ marketplace.exists
    /\ marketplace.platform_fee_percentage # last.amount
    /\ Len(purchases) > 0

(* ---------------------------------------------------------------------- *)
(* Properties of the RewardSystem module                                   *)
(* ---------------------------------------------------------------------- *)

milestones == IF reward_pool.exists THEN reward_pool.milestones ELSE << >>

\* a pay_bonus_reward or transfer_milestone_reward call
pays_out(tx) == tx.op \in {"pay_bonus_reward", "transfer_milestone_reward"}

\* whether the call names an amount: transfer_milestone_reward names it by
\* the id of a milestone of the table
names_amount(tx) ==
    tx.op = "transfer_milestone_reward" => find_milestone(milestones, tx.id) # 0

\* the amount the call asks the pool for
payout_amount(tx) ==
    IF tx.op = "pay_bonus_reward" THEN tx.amount
    ELSE milestones[find_milestone(milestones, tx.id)].reward_amount

C16_Step ==
    (pays_out(last') /\ reward_pool.exists /\ names_amount(last')) =>
        /\ last'.code = OK =>
               /\ reward_pool'.balance = reward_pool.balance - payout_amount(last')
               /\ reward_pool'.total_rewards_paid =
                      reward_pool.total_rewards_paid + payout_amount(last')
        /\ payout_amount(last') > reward_pool.balance =>
               /\ last'.code # OK
               /\ UNCHANGED ledger
               /\ last'.caller = reward_pool.admin =>
                      last'.code = RewardError(RS_E_INSUFFICIENT_BALANCE)

\* C16: a committed pay_bonus_reward or transfer_milestone_reward of amount a
\* leaves the pool balance at its value before minus a and total_rewards_paid
\* at its value before plus a; one whose amount exceeds the pool balance
\* aborts, with E_INSUFFICIENT_BALANCE when the admin calls it, and leaves the
\* balance, total_rewards_paid, the bonus history and every coin balance
\* unchanged.
C16_Payout == [][C16_Step]_vars

\* after one bonus was paid, the admin was just refused a bonus larger than
\* what is left in the pool
C16_Witness ==
    /\ last.op = "pay_bonus_reward"
    /\ last.code = RewardError(RS_E_INSUFFICIENT_BALANCE)
    /\ last.amount > reward_pool.balance
    /\ reward_pool.balance > 0
    /\ Len(reward_pool.bonus_rewards) = 1
    /\ reward_pool.total_rewards_paid = reward_pool.bonus_rewards[1].amount

RECURSIVE debits_covered(_, _)
\* whether each of the debits evs, taken in order from a balance of bal, is
\* at most what the balance holds when it is taken
debits_covered(bal, evs) ==
    IF evs = << >> THEN TRUE
    ELSE /\ Head(evs).reward_amount <= bal
         /\ debits_covered(bal - Head(evs).reward_amount, Tail(evs))

RECURSIVE total_debits(_)
total_debits(evs) ==
    IF evs = << >> THEN 0 ELSE Head(evs).reward_amount + total_debits(Tail(evs))

C17_NonNegative == reward_pool.exists => reward_pool.balance >= 0

C17_Step ==
    (reward_pool.exists /\ reward_pool'.balance < reward_pool.balance) =>
        /\ last'.code = OK
        /\ \/ /\ pays_out(last')
              /\ names_amount(last')
              /\ payout_amount(last') <= reward_pool.balance
              /\ reward_pool'.balance = reward_pool.balance - payout_amount(last')
           \/ /\ last'.op = "check_milestones"
              /\ LET debits == SubSeq(reward_pool'.milestone_events,
                                      Len(reward_pool.milestone_events) + 1,
                                      Len(reward_pool'.milestone_events))
                 IN /\ debits # << >>
                    /\ debits_covered(reward_pool.balance, debits)
                    /\ reward_pool'.balance =
                           reward_pool.balance - total_debits(debits)

\* C17: the pool balance is never negative, and every step in which it
\* decreases is a committed pay_bonus_reward, transfer_milestone_reward or
\* check_milestones; the first two take one amount that is at most the balance
\* before the step, and check_milestones takes the rewards of the milestones
\* it marks, each at most the balance left by the debits before it.
C17_DebitsCovered == []C17_NonNegative /\ [][C17_Step]_vars

\* check_milestones has taken two milestone rewards from the pool, and what
\* is left is less than the reward of a milestone the last call qualified for
C17_Witness ==
    /\ last.op = "check_milestones"
    /\ last.code = OK
    /\ Len(reward_pool.milestone_events) = 2
    /\ \E i \in 1..Len(milestones) :
          /\ milestones[i].is_active
          /\ milestones[i].requirement <= last.amount
          /\ ~contains(user_achievements[last.caller].milestones_achieved,
                       milestones[i].id)
          /\ milestones[i].reward_amount > reward_pool.balance

\* the UserAchievements check_milestones works on: the user's own, or a new
\* one it publishes first
achievements_of(user_addr) ==
    IF user_achievements[user_addr].exists THEN user_achievements[user_addr]
    ELSE NewUserAchievements

\* what two check_milestones calls in a row leave, against what one leaves
C18_Twice ==
    reward_pool.exists =>
        \A u \in Address, n \in UploadCounts :
            LET once == check_each_milestone(1, reward_pool, achievements_of(u), u, n)
                twice == check_each_milestone(1, once.pool, once.ach, u, n)
            IN /\ twice.ach.milestones_achieved = once.ach.milestones_achieved
               /\ twice.pool.balance = once.pool.balance
               /\ twice.pool.total_rewards_paid = once.pool.total_rewards_paid
               /\ Len(twice.pool.milestone_events) = Len(once.pool.milestone_events)

C18_Step ==
    (/\ last.op = "check_milestones" /\ last.code = OK
     /\ last'.op = "check_milestones" /\ last'.code = OK
     /\ last'.caller = last.caller /\ last'.amount = last.amount) =>
        UNCHANGED ledger

\* C18: check_milestones is idempotent: in every state, a second
\* check_milestones(user, n) directly after a first one with the same n leaves
\* the user's achieved milestones, the pool balance, total_rewards_paid and
\* the number of milestone events as the first one left them.
C18_Idempotent == []C18_Twice /\ [][C18_Step]_vars

\* a check_milestones that marked milestones and left one the user qualifies
\* for unmarked, the pool being short of its reward: the state a second call
\* with the same count starts from
C18_Witness ==
    /\ last.op = "check_milestones"
    /\ last.code = OK
    /\ Len(user_achievements[last.caller].milestones_achieved) >= 2
    /\ reward_pool.balance > 0
    /\ \E i \in 1..Len(milestones) :
          /\ milestones[i].is_active
          /\ milestones[i].requirement <= last.amount
          /\ ~contains(user_achievements[last.caller].milestones_achieved,
                       milestones[i].id)
    /\ \E i \in 1..Len(milestones) : ~milestones[i].is_active

\* the milestone ids a user has achieved, in the order they were added
achieved(u) ==
    IF user_achievements[u].exists THEN user_achievements[u].milestones_achieved
    ELSE << >>

C19_NoDuplicates ==
    \A u \in Address : \A i, j \in 1..Len(achieved(u)) :
        achieved(u)[i] = achieved(u)[j] => i = j

C19_Step ==
    \A u \in Address :
        /\ user_achievements[u].exists => user_achievements'[u].exists
        /\ Len(achieved(u)') >= Len(achieved(u))
        /\ SubSeq(achieved(u)', 1, Len(achieved(u))) = achieved(u)
        /\ achieved(u)' # achieved(u) =>
               /\ last'.op = "check_milestones"
               /\ last'.code = OK
               /\ last'.caller = u

\* C19: a user's milestones_achieved is append-only and free of duplicates:
\* every step leaves what it held as a prefix of what it holds, no id occurs
\* twice, and it grows only in a committed check_milestones signed by that
\* user.
C19_AppendOnly == []C19_NoDuplicates /\ [][C19_Step]_vars

\* a check_milestones of a user who holds two milestones, after the pool was
\* replenished, while another user holds a milestone of their own
C19_Witness ==
    /\ last.op = "check_milestones"
    /\ last.code = OK
    /\ achieved(last.caller) = << 1, 2 >>
    /\ Len(reward_pool.pool_replenished_events) = 1
    /\ \E u \in Address : u # last.caller /\ achieved(u) = << 1 >>

\* whether the step debits the pool the reward of milestone m for user u: a
\* check_milestones of u that marks m, or a transfer_milestone_reward of m to u
debits_for(u, m) ==
    /\ last'.code = OK
    /\ \/ /\ last'.op = "check_milestones"
          /\ last'.caller = u
          /\ ~contains(achieved(u), m)
          /\ contains(achieved(u)', m)
       \/ /\ last'.op = "transfer_milestone_reward"
          /\ last'.to = u
          /\ last'.id = m
          /\ find_milestone(milestones, m) # 0

\* whether the pool was debited the reward of milestone m for user u before:
\* m is in u's achieved milestones, or the transaction before was a committed
\* transfer_milestone_reward of m to u
debited_for(u, m) ==
    \/ contains(achieved(u), m)
    \/ /\ last.op = "transfer_milestone_reward"
       /\ last.code = OK
       /\ last.to = u
       /\ last.id = m

\* C20 as stated: the pool is debited the reward of a milestone for a user at
\* most once over any sequence of check_milestones and
\* transfer_milestone_reward calls: no step debits it for a user it was
\* debited for before, and once the id is in the user's achieved milestones
\* no step pays it to that user.
C20_PaidOnce ==
    [][\A u \in Address, m \in 1..MaxMilestones :
          debits_for(u, m) => ~debited_for(u, m)]_vars

RECURSIVE reward_sum(_, _)
\* the sum of the reward amounts of the milestones of table ms at the indices S
reward_sum(ms, S) ==
    IF S = {} THEN 0
    ELSE LET i == CHOOSE k \in S : TRUE
         IN ms[i].reward_amount + reward_sum(ms, S \ {i})

\* the indices of the milestones whose id the step adds to u's achieved ids
marked(u) ==
    {i \in 1..Len(milestones) :
        /\ ~contains(achieved(u), milestones[i].id)
        /\ contains(achieved(u)', milestones[i].id)}

\* the milestone at index i qualifies in a check_milestones(u, n) in which
\* the milestones at the indices S were marked: it is active, u has not
\* achieved it, its requirement is at most n, and its reward is at most what
\* the rewards of the milestones marked before it leave in the pool
qualifies(u, n, i, S) ==
    /\ milestones[i].is_active
    /\ ~contains(achieved(u), milestones[i].id)
    /\ n >= milestones[i].requirement
    /\ milestones[i].reward_amount <=
           reward_pool.balance - reward_sum(milestones, {k \in S : k < i})

\* the events a step appends to milestone_events
new_milestone_events ==
    SubSeq(reward_pool'.milestone_events,
           Len(reward_pool.milestone_events) + 1, Len(reward_pool'.milestone_events))

\* what a committed check_milestones(u, n) has done in the step
evaluated(u, n) ==
    LET S == marked(u)
        new == SubSeq(achieved(u)', Len(achieved(u)) + 1, Len(achieved(u)'))
    IN /\ \A i \in 1..Len(milestones) : i \in S <=> qualifies(u, n, i, S)
       /\ SubSeq(achieved(u)', 1, Len(achieved(u))) = achieved(u)
       /\ Len(new) = Cardinality(S)
       /\ Len(new_milestone_events) = Cardinality(S)
       /\ \A j \in 1..Len(new) :
              \E i \in S :
                  /\ Cardinality({k \in S : k < i}) = j - 1
                  /\ new[j] = milestones[i].id
                  /\ new_milestone_events[j] =
                         [user |-> u, milestone_id |-> milestones[i].id,
                          reward_amount |-> milestones[i].reward_amount]
       /\ reward_pool'.balance = reward_pool.balance - reward_sum(milestones, S)
       /\ reward_pool'.total_rewards_paid =
              reward_pool.total_rewards_paid + reward_sum(milestones, S)
       /\ reward_pool'.milestones = reward_pool.milestones
       /\ reward_pool'.bonus_rewards = reward_pool.bonus_rewards
       /\ \A v \in Address \ {u} : user_achievements'[v] = user_achievements[v]

C21_Step ==
    \A u \in Address, n \in UploadCounts :
        (/\ last'.op = "check_milestones" /\ last'.code = OK
         /\ last'.caller = u /\ last'.amount = n) => evaluated(u, n)

\* C21: a committed check_milestones(user, n) marks exactly the milestones
\* that are active, not among the user's achieved ids, have requirement <= n
\* and a reward of at most the pool balance less the rewards of the milestones
\* marked earlier in the table; their ids are appended in table order, one
\* milestone event is appended for each, the pool balance falls and
\* total_rewards_paid rises by the sum of their rewards, and every other
\* milestone, the table itself and every other user are left as they were.
C21_Evaluate == [][C21_Step]_vars

\* a check_milestones just marked the first and the added fifth milestone of
\* a table whose second one is deactivated, and left a third one it qualified
\* for by count unmarked for lack of balance
C21_Witness ==
    /\ last.op = "check_milestones"
    /\ last.code = OK
    /\ Len(milestones) = 5
    /\ ~milestones[2].is_active
    /\ achieved(last.caller) = << 1, 5 >>
    /\ last.amount >= milestones[3].requirement
    /\ milestones[3].reward_amount > reward_pool.balance

C22_Step ==
    /\ last'.op = "check_milestones" => UNCHANGED coin_balance
    /\ \A u \in Address :
           (reward_pool.exists /\ u # reward_pool.admin
            /\ coin_balance'[u] > coin_balance[u]) =>
               /\ pays_out(last')
               /\ last'.code = OK
               /\ last'.caller = reward_pool.admin
               /\ last'.to = u
               /\ names_amount(last')
               /\ coin_balance'[u] = coin_balance[u] + payout_amount(last')

\* C22: check_milestones moves no coins: it leaves the coin balance of every
\* account, the user's and the admin's included, as it was while it debits the
\* pool and marks milestones; a user's coins rise only in a committed
\* transfer_milestone_reward (or pay_bonus_reward) signed by the admin and
\* naming that user as recipient, by the reward (or bonus) it names.
C22_NoFundsMoved == [][C22_Step]_vars

\* a check_milestones just marked two milestones and took their rewards from
\* the pool, and every account holds what it held at the start
C22_Witness ==
    /\ last.op = "check_milestones"
    /\ last.code = OK
    /\ Len(achieved(last.caller)) = 2
    /\ Len(reward_pool.milestone_events) = 2
    /\ reward_pool.total_rewards_paid > 0
    /\ coin_balance = InitialCoins

\* the datasets_uploaded counter of an address, 0 without a UserStats
uploaded(u) == IF user_stats[u].exists THEN user_stats[u].datasets_uploaded ELSE 0

\* C23 as stated: in every state, each milestone id among a user's achieved
\* ids has a requirement of at most the number of datasets the user has
\* uploaded, their UserStats datasets_uploaded counter.
C23_EarnedByUploads ==
    \A u \in Address : \A j \in 1..Len(achieved(u)) :
        LET i == find_milestone(milestones, achieved(u)[j])
        IN i # 0 => milestones[i].requirement <= uploaded(u)

C24_Step ==
    /\ (last'.op = "deactivate_milestone" /\ last'.code = OK
        /\ find_milestone(milestones, last'.id) # 0) =>
           ~reward_pool'.milestones[find_milestone(milestones, last'.id)].is_active
    /\ \A i \in 1..Len(milestones) :
           ~milestones[i].is_active =>
               /\ reward_pool'.milestones[i].id = milestones[i].id
               /\ ~reward_pool'.milestones[i].is_active
               /\ \A u \in Address :
                      contains(achieved(u)', milestones[i].id)
                          <=> contains(achieved(u), milestones[i].id)
               /\ \A j \in 1..Len(new_milestone_events) :
                      new_milestone_events[j].milestone_id # milestones[i].id

\* C24: a committed deactivate_milestone of a milestone of the table leaves
\* it inactive, and from then on it stays inactive, no check_milestones adds
\* its id to any user's achieved ids or debits the pool for it (no milestone
\* event carries its id), and every user who had achieved it keeps its id.
C24_Deactivated == [][C24_Step]_vars

\* the first milestone was deactivated after one user had achieved it, and
\* the check_milestones of another user, who qualifies for it by count and by
\* the pool balance, just marked the second milestone only
C24_Witness ==
    /\ last.op = "check_milestones"
    /\ last.code = OK
    /\ ~milestones[1].is_active
    /\ last.amount >= milestones[2].requirement
    /\ achieved(last.caller) = << 2 >>
    /\ \E u \in Address : u # last.caller /\ contains(achieved(u), 1)

C25_Table ==
    reward_pool.exists =>
        /\ reward_pool.next_milestone_id = Len(milestones) + 1
        /\ \A i \in 1..Len(milestones) :
               milestones[i].id = i /\ milestones[i].reward_amount > 0

C25_Step ==
    /\ (last'.op = "add_milestone" /\ last'.code = OK) =>
           /\ reward_pool'.milestones =
                  Append(milestones,
                         [id |-> reward_pool.next_milestone_id, is_active |-> TRUE,
                          requirement |-> last'.id, reward_amount |-> last'.amount])
           /\ reward_pool'.next_milestone_id = reward_pool.next_milestone_id + 1
    /\ (last'.op = "add_milestone" /\ ~(last'.amount > 0)) =>
           /\ last'.code # OK
           /\ UNCHANGED ledger
           /\ (reward_pool.exists /\ last'.caller = reward_pool.admin) =>
                  last'.code = RewardError(RS_E_INVALID_AMOUNT)
    /\ (reward_pool.exists /\ ~(last'.op = "add_milestone" /\ last'.code = OK)) =>
           /\ Len(reward_pool'.milestones) = Len(milestones)
           /\ reward_pool'.next_milestone_id = reward_pool.next_milestone_id

\* C25: a committed add_milestone appends one milestone that is active and
\* carries next_milestone_id, one more than the id assigned before it, so the
\* i-th milestone of the table has id i in every state; every milestone has a
\* reward amount above 0, because add_milestone with a reward amount of 0
\* aborts (with E_INVALID_AMOUNT when the admin calls it) and appends nothing;
\* no other step adds or removes a milestone.
C25_MilestoneIds == []C25_Table /\ [][C25_Step]_vars

\* the admin just added a fifth milestone to the four defaults, one of which
\* is deactivated
C25_Witness ==
    /\ last.op = "add_milestone"
    /\ last.code = OK
    /\ Len(milestones) = 5
    /\ milestones[5].id = 5
    /\ milestones[5].is_active
    /\ milestones[5].reward_amount = last.amount
    /\ \E i \in 1..4 : ~milestones[i].is_active

\* a call of one of the five functions of the reward system that assert the
\* admin
admin_only(tx) ==
    tx.op \in {"add_milestone", "pay_bonus_reward", "transfer_milestone_reward",
               "replenish_pool", "deactivate_milestone"}

C26_Step ==
    /\ (admin_only(last') /\ reward_pool.exists
        /\ last'.caller # reward_pool.admin) =>
           (last'.code = RewardError(RS_E_UNAUTHORIZED) /\ UNCHANGED ledger)
    /\ reward_pool.exists =>
           (reward_pool'.exists /\ reward_pool'.admin = reward_pool.admin)

\* C26: add_milestone, pay_bonus_reward, transfer_milestone_reward,
\* replenish_pool and deactivate_milestone signed by any address other than
\* the pool's admin abort with E_UNAUTHORIZED, whatever their arguments, and
\* leave the pool balance, total_rewards_paid, the milestone table, the bonus
\* history and every coin balance unchanged; no step changes the admin of the
\* pool.
C26_AdminOnly == [][C26_Step]_vars

\* after the admin has used the pool, another account that holds the coins
\* for it was just refused a replenish_pool of a valid amount
C26_Witness ==
    /\ last.op = "replenish_pool"
    /\ last.code = RewardError(RS_E_UNAUTHORIZED)
    /\ last.caller # reward_pool.admin
    /\ last.amount > 0
    /\ coin_balance[last.caller] >= last.amount
    /\ Len(reward_pool.bonus_rewards) > 0
    /\ \E i \in 1..Len(milestones) : ~milestones[i].is_active

\* what a committed pay_bonus_reward leaves in the bonus history and in the
\* bonus events: one more entry, for the recipient and the amount of the call
bonus_recorded ==
    /\ reward_pool'.bonus_rewards =
           Append(reward_pool.bonus_rewards,
                  [recipient |-> last'.to, amount |-> last'.amount])
    /\ reward_pool'.bonus_reward_events =
           Append(reward_pool.bonus_reward_events,
                  [recipient |-> last'.to, amount |-> last'.amount])

\* a pay_bonus_reward with an amount of 0 aborts, with E_INVALID_AMOUNT when
\* the admin signs it, and changes nothing
bonus_of_nothing ==
    (last'.op = "pay_bonus_reward" /\ ~(last'.amount > 0)) =>
        /\ last'.code # OK
        /\ UNCHANGED ledger
        /\ (reward_pool.exists /\ last'.caller = reward_pool.admin) =>
               last'.code = RewardError(RS_E_INVALID_AMOUNT)

\* C27 as stated: a committed pay_bonus_reward, for any recipient, raises the
\* recipient's coins by exactly the amount, appends exactly one entry to the
\* bonus history and emits exactly one bonus event; with an amount of 0 it
\* aborts with E_INVALID_AMOUNT.
C27_BonusPaid ==
    [][/\ (last'.op = "pay_bonus_reward" /\ last'.code = OK) =>
              /\ coin_balance'[last'.to] = coin_balance[last'.to] + last'.amount
              /\ bonus_recorded
       /\ bonus_of_nothing]_vars

\* C27 amended: a committed pay_bonus_reward raises the coins of a recipient
\* other than the admin by exactly the amount and lowers the admin's by it;
\* when the recipient is the admin, the coins go from the admin to the admin
\* and every coin balance stays as it was.  In both cases exactly one entry
\* is appended to the bonus history and one bonus event is emitted; with an
\* amount of 0 the call aborts with E_INVALID_AMOUNT.
C27_BonusPaidToOthers ==
    [][/\ (last'.op = "pay_bonus_reward" /\ last'.code = OK) =>
              /\ coin_balance' =
                     [a \in Address |->
                        coin_balance[a]
                        + (IF a = last'.to THEN last'.amount ELSE 0)
                        - (IF a = last'.caller THEN last'.amount ELSE 0)]
              /\ last'.to = last'.caller => UNCHANGED coin_balance
              /\ last'.to # last'.caller =>
                     coin_balance'[last'.to] = coin_balance[last'.to] + last'.amount
              /\ bonus_recorded
       /\ bonus_of_nothing]_vars

\* the admin just paid a bonus to itself, after one to another account: two
\* entries in the history, and the admin's coins are down by the first only
C27_Witness ==
    /\ last.op = "pay_bonus_reward"
    /\ last.code = OK
    /\ last.to = last.caller
    /\ Len(reward_pool.bonus_rewards) = 2
    /\ reward_pool.bonus_rewards[1].recipient # last.caller
    /\ reward_pool.bonus_rewards[2].recipient = last.caller
    /\ coin_balance[last.caller] =
           InitialCoins[last.caller] - reward_pool.bonus_rewards[1].amount

\* the purchase_dataset that just committed: its buyer, its seller, the price
\* and the fee taken from it
purchase_committed == last'.op = "purchase_dataset" /\ last'.code = OK
fee_taken ==
    platform_fee_of(dataset_of(last'.id).price, marketplace.platform_fee_percentage)

\* C28 as stated: after every committed purchase_dataset, whoever the buyer,
\* the seller and the fee recipient are, the buyer holds what it held before
\* less exactly the price, and the seller holds strictly more than before.
C28_BuyerPaysPrice ==
    [][purchase_committed =>
          /\ coin_balance'[last'.caller] =
                 coin_balance[last'.caller] - dataset_of(last'.id).price
          /\ coin_balance'[dataset_of(last'.id).owner] >
                 coin_balance[dataset_of(last'.id).owner]]_vars

\* C28 amended: after every committed purchase_dataset the seller holds
\* strictly more than before; a buyer that is not the fee recipient holds what
\* it held before less exactly the price, and a buyer that is the fee
\* recipient gets the fee back and is down by price - fee only.
C28_BuyerPaysPriceLessFee ==
    [][purchase_committed =>
          LET buyer == last'.caller
              price == dataset_of(last'.id).price
              seller == dataset_of(last'.id).owner
          IN /\ coin_balance'[seller] > coin_balance[seller]
             /\ buyer # seller
             /\ buyer # marketplace.platform_fee_recipient =>
                    coin_balance'[buyer] = coin_balance[buyer] - price
             /\ buyer = marketplace.platform_fee_recipient =>
                    coin_balance'[buyer] = coin_balance[buyer] - (price - fee_taken)]_vars

\* the fee recipient just bought a dataset at a fee above 0: it is down by
\* less than the price
C28_Witness ==
    /\ last.op = "purchase_dataset"
    /\ last.code = OK
    /\ last.caller = marketplace.platform_fee_recipient
    /\ marketplace.platform_fee_percentage > 0
    /\ Len(purchases) = 1
    /\ coin_balance[last.caller] > InitialCoins[last.caller] - purchases[1].price
    /\ coin_balance[purchases[1].seller] > InitialCoins[purchases[1].seller]

\* the datasets an address owns and the Purchase records it is the buyer of,
\* as positions in the two vectors of the marketplace
owned_by(a) == {i \in 1..Len(datasets) : datasets[i].owner = a}
bought_by(a) == {i \in 1..Len(purchases) : purchases[i].buyer = a}

RECURSIVE spent_in(_, _)
\* the sum of the prices of the Purchase records ps with a as buyer
spent_in(ps, a) ==
    IF ps = << >> THEN 0
    ELSE (IF Head(ps).buyer = a THEN Head(ps).price ELSE 0) + spent_in(Tail(ps), a)

C29_Consistent ==
    \A a \in Address :
        /\ user_stats[a].exists <=> (owned_by(a) # {} \/ bought_by(a) # {})
        /\ user_stats[a].exists =>
               /\ user_stats[a].datasets_uploaded = Cardinality(owned_by(a))
               /\ user_stats[a].datasets_purchased = Cardinality(bought_by(a))
               /\ user_stats[a].total_spent = spent_in(purchases, a)

C29_Step ==
    \A a \in Address :
        /\ user_stats[a].exists => user_stats'[a].exists
        /\ (~user_stats[a].exists /\ user_stats'[a].exists) =>
               /\ last'.code = OK
               /\ last'.caller = a
               /\ last'.op \in {"upload_dataset", "purchase_dataset"}

\* C29: UserStats are created lazily and agree with the marketplace.  An
\* address has a UserStats exactly when it owns a dataset or is the buyer of
\* a Purchase; the record appears in the committed upload or purchase of that
\* address and never goes away; datasets_uploaded is the number of datasets
\* the address owns, datasets_purchased the number of its Purchase records
\* and total_spent the sum of their prices.
C29_StatsConsistent == []C29_Consistent /\ [][C29_Step]_vars

\* alice has uploaded twice, @DataDex has bought both datasets at different
\* prices and bob one of them; carol has done neither and has no UserStats
C29_Witness ==
    /\ user_stats["alice"].exists
    /\ user_stats["alice"].datasets_uploaded = 2
    /\ user_stats["alice"].datasets_purchased = 0
    /\ user_stats[DataDex].exists
    /\ user_stats[DataDex].datasets_uploaded = 0
    /\ user_stats[DataDex].datasets_purchased = 2
    /\ Len(purchases) = 3
    /\ \E i, j \in bought_by(DataDex) :
           /\ purchases[i].price # purchases[j].price
           /\ user_stats[DataDex].total_spent = purchases[i].price + purchases[j].price
    /\ user_stats["bob"].datasets_purchased = 1
    /\ ~user_stats["carol"].exists

RECURSIVE earned_in(_, _)
\* the sum of price - fee over the Purchase records ps with a as seller
earned_in(ps, a) ==
    IF ps = << >> THEN 0
    ELSE (IF Head(ps).seller = a
          THEN Head(ps).price
               - platform_fee_of(Head(ps).price, marketplace.platform_fee_percentage)
          ELSE 0)
         + earned_in(Tail(ps), a)

\* the branch of purchase_dataset on exists<UserStats>(seller_addr): the
\* seller's total_earned grows by seller_amount when the record is there, and
\* no record is made for the seller when it is not
seller_credit ==
    LET seller == dataset_of(last'.id).owner
        seller_amount == dataset_of(last'.id).price - fee_taken
    IN /\ user_stats'[seller].exists <=> user_stats[seller].exists
       /\ user_stats[seller].exists =>
              user_stats'[seller] =
                  [user_stats[seller] EXCEPT !.total_earned = @ + seller_amount]
       /\ ~user_stats[seller].exists => user_stats'[seller] = user_stats[seller]
       /\ \A a \in Address \ {seller, last'.caller} : user_stats'[a] = user_stats[a]

C30_Recorded ==
    /\ \A i \in 1..Len(datasets) : user_stats[datasets[i].owner].exists
    /\ \A a \in Address :
           user_stats[a].exists => user_stats[a].total_earned = earned_in(purchases, a)

dataset_uploaded_events == IF marketplace.exists THEN marketplace.dataset_uploaded_events ELSE << >>
dataset_purchased_events == IF marketplace.exists THEN marketplace.dataset_purchased_events ELSE << >>
reward_paid_events == IF marketplace.exists THEN marketplace.reward_paid_events ELSE << >>
pool_replenished_events == IF reward_pool.exists THEN reward_pool.pool_replenished_events ELSE << >>
event_logs == <<dataset_uploaded_events, dataset_purchased_events, reward_paid_events, pool_replenished_events>>

\* the events in the handles are the datasets and the purchases in the order
\* they were pushed: the i-th upload event is about the i-th dataset, the
\* i-th purchase event and the i-th reward event about the i-th Purchase
C31_InOrder ==
    /\ Len(dataset_uploaded_events) = Len(datasets)
    /\ \A i \in 1..Len(datasets) :
           /\ dataset_uploaded_events[i].dataset_id = datasets[i].id
           /\ dataset_uploaded_events[i].owner = datasets[i].owner
    /\ Len(dataset_purchased_events) = Len(purchases)
    /\ Len(reward_paid_events) = Len(purchases)
    /\ \A i \in 1..Len(purchases) :
           /\ dataset_purchased_events[i] =
                  [dataset_id |-> purchases[i].dataset_id, buyer |-> purchases[i].buyer,
                   seller |-> purchases[i].seller, price |-> purchases[i].price]
           /\ reward_paid_events[i] =
                  [recipient |-> purchases[i].seller,
                   amount |-> purchases[i].price
                              - platform_fee_of(purchases[i].price,
                                                marketplace.platform_fee_percentage),
                   dataset_id |-> purchases[i].dataset_id]

C31_Step ==
    /\ last'.code # OK => UNCHANGED event_logs
    /\ last'.code = OK =>
          /\ dataset_uploaded_events' =
                 IF last'.op = "upload_dataset"
                 THEN Append(dataset_uploaded_events,
                             [dataset_id |-> marketplace.next_dataset_id,
                              owner |-> last'.caller, price |-> last'.amount])
                 ELSE dataset_uploaded_events
          /\ dataset_purchased_events' =
                 IF last'.op = "purchase_dataset"
                 THEN Append(dataset_purchased_events,
                             [dataset_id |-> last'.id, buyer |-> last'.caller,
                              seller |-> dataset_of(last'.id).owner,
                              price |-> dataset_of(last'.id).price])
                 ELSE dataset_purchased_events
          /\ reward_paid_events' =
                 IF last'.op = "purchase_dataset"
                 THEN Append(reward_paid_events,
                             [recipient |-> dataset_of(last'.id).owner,
                              amount |-> dataset_of(last'.id).price - fee_taken,
                              dataset_id |-> last'.id])
                 ELSE reward_paid_events
          /\ pool_replenished_events' =
                 IF last'.op = "replenish_pool"
                 THEN Append(pool_replenished_events,
                             [amount |-> last'.amount, new_balance |-> reward_pool'.balance])
                 ELSE pool_replenished_events

\* C31: the event handles are append-only and follow the transactions.  A
\* committed upload_dataset appends one DatasetUploadedEvent, a committed
\* purchase_dataset one DatasetPurchasedEvent and one RewardPaidEvent with
\* the buyer, the seller, the price and the seller amount of that purchase, a
\* committed replenish_pool one RewardPoolReplenishedEvent whose new_balance
\* is the balance after the call; no other transaction and no aborted one
\* appends to these handles, and within each handle the events stand in the
\* order in which the datasets and the purchases were recorded.
C31_EventsFollow == []C31_InOrder /\ [][C31_Step]_vars

\* one dataset bought by two buyers at two prices, then a replenishment: the
\* two purchase events are in the order of the purchases, and the replenish
\* event carries the balance after it
C31_Witness ==
    /\ last.op = "replenish_pool"
    /\ last.code = OK
    /\ Len(dataset_purchased_events) = 2
    /\ dataset_purchased_events[1].dataset_id = dataset_purchased_events[2].dataset_id
    /\ dataset_purchased_events[1].buyer # dataset_purchased_events[2].buyer
    /\ dataset_purchased_events[1].price < dataset_purchased_events[2].price
    /\ reward_paid_events[2].amount < dataset_purchased_events[2].price
    /\ pool_replenished_events = <<[amount |-> last.amount, new_balance |-> reward_pool.balance]>>
    /\ reward_pool.balance = 6000000 + last.amount

\* a call of a #[view] function: it aborts in borrow_global when there is no
\* DataMarketplace at @DataDex, and returns the value otherwise; an Option is
\* a sequence of at most one element
Returned(value) == [code |-> OK, value |-> value]
Aborted(code) == [code |-> code, value |-> << >>]
view_get_dataset_by_id(dataset_id) ==
    IF ~marketplace.exists THEN Aborted(MISSING_RESOURCE)
    ELSE Returned(get_dataset_by_id(marketplace, dataset_id))
view_get_datasets_by_owner(owner) ==
    IF ~marketplace.exists THEN Aborted(MISSING_RESOURCE)
    ELSE Returned(get_datasets_by_owner(marketplace, owner))
view_get_user_stats(user) ==
    IF user_stats[user].exists THEN Returned(<< user_stats[user] >>) ELSE Returned(<< >>)
view_has_user_purchased_dataset(buyer, dataset_id) ==
    IF ~marketplace.exists THEN Aborted(MISSING_RESOURCE)
    ELSE Returned(has_purchased_dataset(marketplace.purchases, buyer, dataset_id))

\* what the four views answer about what is not there
missing_is_absent ==
    /\ \A d \in DatasetIds :
           (\A i \in 1..Len(datasets) : datasets[i].id # d) =>
               view_get_dataset_by_id(d) = Returned(<< >>)
    /\ \A a \in Address :
           /\ (\A i \in 1..Len(datasets) : datasets[i].owner # a) =>
                  view_get_datasets_by_owner(a) = Returned(<< >>)
           /\ ~user_stats[a].exists => view_get_user_stats(a) = Returned(<< >>)
           /\ \A d \in DatasetIds :
                  (\A i \in 1..Len(purchases) :
                       ~(purchases[i].buyer = a /\ purchases[i].dataset_id = d)) =>
                      view_has_user_purchased_dataset(a, d) = Returned(FALSE)

\* C32 as stated: the views never abort for what is missing, in any state:
\* get_dataset_by_id of an unknown id returns none, get_datasets_by_owner of
\* an address without datasets the empty vector, get_user_stats of an address
\* without UserStats none, has_user_purchased_dataset of an unrecorded pair
\* false.
C32_MissingIsAbsent == missing_is_absent

\* C32 amended: once the DataMarketplace has been initialized the views
\* answer as stated and never abort; get_user_stats does so in every state;
\* while there is no DataMarketplace the three views that borrow it abort.
C32_MissingIsAbsentOnceInitialized ==
    /\ marketplace.exists => missing_is_absent
    /\ \A a \in Address :
           /\ view_get_user_stats(a).code = OK
           /\ ~user_stats[a].exists => view_get_user_stats(a) = Returned(<< >>)
    /\ ~marketplace.exists =>
           \A a \in Address, d \in DatasetIds :
               /\ view_get_dataset_by_id(d).code = MISSING_RESOURCE
               /\ view_get_datasets_by_owner(a).code = MISSING_RESOURCE
               /\ view_has_user_purchased_dataset(a, d).code = MISSING_RESOURCE

\* a marketplace with one dataset, bought once: the views find what is there
\* and answer none, empty and false for the id, the owner, the stats and the
\* pair that are not
C32_Witness ==
    /\ marketplace.exists
    /\ Len(datasets) = 1
    /\ Len(purchases) = 1
    /\ view_get_dataset_by_id(1) = Returned(<< datasets[1] >>)
    /\ view_get_dataset_by_id(2) = Returned(<< >>)
    /\ view_get_datasets_by_owner(datasets[1].owner) = Returned(<< datasets[1] >>)
    /\ view_get_datasets_by_owner(purchases[1].buyer) = Returned(<< >>)
    /\ view_get_user_stats(purchases[1].buyer).value # << >>
    /\ view_get_user_stats("carol") = Returned(<< >>)
    /\ view_has_user_purchased_dataset(purchases[1].buyer, 1) = Returned(TRUE)
    /\ view_has_user_purchased_dataset(purchases[1].buyer, 2) = Returned(FALSE)
    /\ view_has_user_purchased_dataset("alice", 1) = Returned(FALSE)

\* the RewardPool a committed initialize_reward_system leaves at @DataDex:
\* the balance of the call, nothing paid, the signer as admin and the four
\* default milestones
pool_created ==
    /\ ~reward_pool.exists
    /\ reward_pool'.exists
    /\ reward_pool'.balance = last'.amount
    /\ reward_pool'.total_rewards_paid = 0
    /\ reward_pool'.admin = last'.caller
    /\ reward_pool'.bonus_rewards = << >>
    /\ Len(reward_pool'.milestones) = Len(DefaultMilestones)

\* C33 as stated: the first initialize_reward_system yields a pool with the
\* balance of the call, total_rewards_paid 0 and the signer as admin; every
\* later one aborts with E_ALREADY_INITIALIZED and leaves the pool as it was.
C33_PoolInitializedOnce ==
    [][last'.op = "initialize_reward_system" =>
          /\ last'.code = OK => pool_created
          /\ reward_pool.exists =>
                 /\ last'.code = RewardError(RS_E_ALREADY_INITIALIZED)
                 /\ UNCHANGED ledger]_vars

\* C33 amended: a committed initialize_reward_system yields the pool as
\* stated, and its signer is @DataDex; once the pool exists every
\* initialize_reward_system aborts and leaves the pool, its milestones, its
\* balance and everything else as they were, with E_ALREADY_INITIALIZED when
\* the admin signs it; when another address signs it, in coin::transfer if
\* that address holds less than the initial balance, and with
\* E_UNAUTHORIZED, from the first default milestone, otherwise.
C33_PoolInitializedOncePerSigner ==
    [][last'.op = "initialize_reward_system" =>
          /\ last'.code = OK => (pool_created /\ last'.caller = DataDex)
          /\ reward_pool.exists =>
                 /\ last'.code # OK
                 /\ UNCHANGED ledger
                 /\ last'.caller = reward_pool.admin =>
                        last'.code = RewardError(RS_E_ALREADY_INITIALIZED)
                 /\ last'.caller # reward_pool.admin =>
                        last'.code =
                            IF last'.amount > 0 /\ coin_balance[last'.caller] < last'.amount
                            THEN COIN_EINSUFFICIENT_BALANCE
                            ELSE RewardError(RS_E_UNAUTHORIZED)]_vars

\* a pool that has paid out and has a fifth milestone, and an
\* initialize_reward_system by another address than its admin just refused
C33_Witness ==
    /\ last.op = "initialize_reward_system"
    /\ last.code = RewardError(RS_E_UNAUTHORIZED)
    /\ reward_pool.exists
    /\ last.caller # reward_pool.admin
    /\ last.caller \notin other_reward_pools
    /\ reward_pool.total_rewards_paid > 0
    /\ Len(reward_pool.milestones) = Len(DefaultMilestones) + 1

(* ---------------------------------------------------------------------- *)
(* The gateway: GET /api/datasets/:id/content                              *)
(* ---------------------------------------------------------------------- *)

\* a request without the query parameter `buyer`
NoBuyer == ""
BuyerParams == {NoBuyer, "bob", "carol"}
Requesters == {"bob", "carol"}

HttpStatus(status) == [module |-> "http", code |-> status]

\* the response of the route handler: 500 from the catch when the view
\* aborts, 404 without the dataset, 403 when a buyer is named that has not
\* purchased, and the content otherwise
content_response(buyer, dataset_id) ==
    LET dataset == view_get_dataset_by_id(dataset_id) IN
    IF dataset.code # OK THEN HttpStatus(500)
    ELSE IF dataset.value = << >> THEN HttpStatus(404)
    ELSE IF buyer # NoBuyer
            /\ ~view_has_user_purchased_dataset(buyer, dataset_id).value
         THEN HttpStatus(403)
    ELSE HttpStatus(200)

\* a request to the route by requester, naming buyer in the query string
get_dataset_content(requester, buyer, dataset_id) ==
    /\ UNCHANGED ledger
    /\ last' = Tx("get_dataset_content", requester, buyer, dataset_id, 0,
                  content_response(buyer, dataset_id))

\* a marketplace whose datasets are bought by bob and by @DataDex, and the
\* gateway answering requests for their content
GatewayNext ==
    \/ initialize(DataDex, 5, DataDex)
    \/ upload_dataset("alice", 30000030)
    \/ \E a \in {DataDex, "bob"}, d \in DatasetIds : purchase_dataset(a, d)
    \/ \E d \in DatasetIds : deactivate_dataset("alice", d)
    \/ \E r \in Requesters, b \in BuyerParams, d \in DatasetIds : get_dataset_content(r, b, d)

GatewaySpec == Init /\ [][GatewayNext]_vars

\* C34: the gateway serves a dataset's content only after purchase.  Every
\* request to GET /api/datasets/:id/content that is answered with the
\* content comes from a requester who is the buyer of a Purchase of that
\* dataset.
C34_ContentAfterPurchase ==
    (last.op = "get_dataset_content" /\ last.code = HttpStatus(200)) =>
        has_purchased_dataset(purchases, last.caller, last.id)

\* what the two coin::transfer calls of a committed purchase withdraw from
\* the buyer: what the seller gained, and the fee, which went to the fee
\* recipient
withdrawn_from_buyer ==
    LET seller == dataset_of(last'.id).owner
        recipient == marketplace.platform_fee_recipient
    IN (coin_balance'[seller] - coin_balance[seller]
        - (IF seller = recipient THEN fee_taken ELSE 0))
       + fee_taken

C35_Step ==
    /\ Len(purchases') >= Len(purchases)
    /\ \A i \in 1..Len(purchases) : purchases'[i] = purchases[i]
    /\ Len(purchases') > Len(purchases) =>
           /\ purchase_committed
           /\ Len(purchases') = Len(purchases) + 1
           /\ purchases'[Len(purchases')].price = dataset_of(last'.id).price
           /\ purchases'[Len(purchases')].price = withdrawn_from_buyer
           /\ last'.caller # marketplace.platform_fee_recipient =>
                  coin_balance[last'.caller] - coin_balance'[last'.caller] =
                      purchases'[Len(purchases')].price

\* C35: a Purchase is immutable and carries the price of the moment.  The
\* price of the Purchase a purchase_dataset appends is the dataset's price in
\* the state the purchase ran in and is what its two transfers withdraw from
\* the buyer; no later update_dataset_price, deactivate_dataset,
\* upload_dataset or purchase_dataset changes a field of a Purchase already
\* recorded or removes it.
C35_PurchaseImmutable == [][C35_Step]_vars

\* a dataset bought, then repriced and deactivated, then another dataset
\* bought: the first Purchase still carries the old price
C35_Witness ==
    /\ Len(purchases) = 2
    /\ has_dataset(purchases[1].dataset_id)
    /\ purchases[1].price # dataset_of(purchases[1].dataset_id).price
    /\ ~dataset_of(purchases[1].dataset_id).is_active
    /\ purchases[2].dataset_id # purchases[1].dataset_id
    /\ last.op = "purchase_dataset"
    /\ last.code = OK

\* purchases of datasets whose price is raised above what their owner and
\* their buyers hold, and which are deactivated
FailureNext ==
    \/ initialize(DataDex, 5, DataDex)
    \/ upload_dataset("alice", 30000030)
    \/ \E a \in {"alice", "bob"}, d \in DatasetIds : purchase_dataset(a, d)
    \/ \E d \in DatasetIds : deactivate_dataset("alice", d)
    \/ \E d \in DatasetIds, p \in {20000000, 70000000} : update_dataset_price("alice", d, p)

FailureSpec == Init /\ [][FailureNext]_vars

\* the failure conditions of a purchase_dataset of a dataset that exists, in
\* the state it runs in
is_inactive == ~dataset_of(last'.id).is_active
is_own == dataset_of(last'.id).owner = last'.caller
is_repeated == has_purchased_dataset(purchases, last'.caller, last'.id)
is_unaffordable == coin_balance[last'.caller] < dataset_of(last'.id).price

C36_Step ==
    (last'.op = "purchase_dataset" /\ marketplace.exists) =>
        /\ ~has_dataset(last'.id) => last'.code = MarketError(E_DATASET_NOT_FOUND)
        /\ has_dataset(last'.id) =>
              /\ is_inactive => last'.code = MarketError(E_DATASET_NOT_FOUND)
              /\ (~is_inactive /\ is_own) => last'.code = MarketError(E_UNAUTHORIZED)
              /\ (~is_inactive /\ ~is_own /\ is_repeated) =>
                     last'.code = MarketError(E_DATASET_ALREADY_PURCHASED)
              /\ (~is_inactive /\ ~is_own /\ ~is_repeated /\ is_unaffordable) =>
                     last'.code = MarketError(E_INSUFFICIENT_BALANCE)

\* C36: when several failure conditions of purchase_dataset hold at once the
\* abort code is that of the first in the order: no dataset with the id
\* (E_DATASET_NOT_FOUND), dataset not active (E_DATASET_NOT_FOUND), buyer is
\* the owner (E_UNAUTHORIZED), buyer already has a Purchase of the dataset
\* (E_DATASET_ALREADY_PURCHASED), buyer holds less than the price
\* (E_INSUFFICIENT_BALANCE).
C36_FailureOrder == [][C36_Step]_vars

\* bob, who bought the dataset, just tried again when its price was above
\* what he holds: E_DATASET_ALREADY_PURCHASED, not E_INSUFFICIENT_BALANCE
C36_Witness ==
    /\ last.op = "purchase_dataset"
    /\ last.code = MarketError(E_DATASET_ALREADY_PURCHASED)
    /\ has_dataset(last.id)
    /\ dataset_of(last.id).is_active
    /\ has_purchased_dataset(purchases, last.caller, last.id)
    /\ coin_balance[last.caller] < dataset_of(last.id).price

RECURSIVE replenished(_)
\* the sum of the amounts in the RewardPoolReplenishedEvents evs
replenished(evs) ==
    IF evs = << >> THEN 0 ELSE Head(evs).amount + replenished(Tail(evs))

\* what the pool holds and has paid, less what replenish_pool added to it:
\* the balance it was initialized with, if nothing is lost
pool_initial == reward_pool.balance + reward_pool.total_rewards_paid - replenished(pool_replenished_events)

C37_Step ==
    /\ (~reward_pool.exists /\ reward_pool'.exists) =>
           /\ last'.op = "initialize_reward_system"
           /\ pool_initial' = last'.amount
           /\ reward_pool'.total_rewards_paid = 0
    /\ reward_pool.exists =>
           /\ reward_pool'.exists
           /\ pool_initial' = pool_initial
           /\ replenished(pool_replenished_events') =
                  replenished(pool_replenished_events)
                  + (IF last'.op = "replenish_pool" /\ last'.code = OK
                     THEN last'.amount ELSE 0)
           /\ reward_pool'.total_rewards_paid >= reward_pool.total_rewards_paid

\* C37: pool accounting is conserved.  From initialize_reward_system on,
\* balance + total_rewards_paid is the balance the pool was initialized with
\* plus the amounts of the committed replenish_pool calls, whatever
\* pay_bonus_reward, transfer_milestone_reward, check_milestones,
\* replenish_pool, add_milestone and deactivate_milestone calls were made.
C37_Conserved == [][C37_Step]_vars

\* a pool that has paid a bonus, paid a milestone reward, been debited by a
\* check_milestones and been replenished
C37_Witness ==
    /\ reward_pool.exists
    /\ reward_pool.bonus_rewards # << >>
    /\ reward_pool.milestone_events # << >>
    /\ pool_replenished_events # << >>
    /\ reward_pool.total_rewards_paid >
           total_debits(reward_pool.milestone_events) + reward_pool.bonus_rewards[1].amount
    /\ pool_initial = 6000000
    /\ reward_pool.balance + reward_pool.total_rewards_paid = 11000000

\* the sellers of the Purchase records, and the owners of the datasets
sellers == {purchases[i].seller : i \in 1..Len(purchases)}
owners == {datasets[i].owner : i \in 1..Len(datasets)}

C38_OwnersHaveStats ==
    /\ sellers \subseteq owners
    /\ \A a \in owners :
           /\ user_stats[a].exists
           /\ user_stats[a].datasets_uploaded >= 1
    /\ \A a \in Address :
           user_stats[a].exists =>
               user_stats[a].total_earned = earned_in(purchases, a)

C38_Step ==
    /\ (last'.op = "upload_dataset" /\ last'.code = OK) => user_stats'[last'.caller].exists
    /\ purchase_committed =>
           /\ user_stats[dataset_of(last'.id).owner].exists
           /\ user_stats'[dataset_of(last'.id).owner].total_earned =
                  user_stats[dataset_of(last'.id).owner].total_earned
                  + dataset_of(last'.id).price - fee_taken

\* C38: in every reachable state the owner of every dataset has a UserStats:
\* the committed upload_dataset leaves one, before any purchase of the
\* dataset.  So every committed purchase_dataset finds the seller's record
\* and takes the branch that credits it, and total_earned of every address
\* is the sum of price - fee over the Purchases in which it is the seller.
C38_NoSkippedCredit == []C38_OwnersHaveStats /\ [][C38_Step]_vars

\* carol, who has no CoinStore, owns a dataset and has a UserStats with
\* nothing earned; alice has sold her dataset to two buyers
C38_Witness ==
    /\ owners = {"alice", "carol"}
    /\ user_stats["carol"].exists
    /\ user_stats["carol"].total_earned = 0
    /\ Len(purchases) = 2
    /\ sellers = {"alice"}
    /\ user_stats["alice"].total_earned > purchases[1].price
    /\ user_stats["alice"].total_earned = earned_in(purchases, "alice")

\* a deactivate_dataset signed by the owner of a dataset that is not active,
\* and a deactivate_milestone signed by the admin for a milestone that is not
deactivates_again ==
    \/ /\ last'.op = "deactivate_dataset"
       /\ has_dataset(last'.id)
       /\ dataset_of(last'.id).owner = last'.caller
       /\ ~dataset_of(last'.id).is_active
    \/ /\ last'.op = "deactivate_milestone"
       /\ reward_pool.exists
       /\ reward_pool.admin = last'.caller
       /\ \E i \in 1..Len(milestones) :
              milestones[i].id = last'.id /\ ~milestones[i].is_active

C39_Step ==
    /\ \A i \in 1..Len(datasets) : ~datasets[i].is_active => ~datasets'[i].is_active
    /\ \A i \in 1..Len(milestones) : ~milestones[i].is_active => ~milestones'[i].is_active
    /\ deactivates_again => (last'.code = OK /\ UNCHANGED ledger)

PayoutNext ==
    \/ initialize(DataDex, 5, DataDex)
    \/ upload_dataset("alice", 30000030)
    \/ purchase_dataset(DataDex, 1)
    \/ initialize_reward_system(DataDex, 90000000)
    \/ add_milestone(DataDex, 2, 80000000)
    \/ \E t \in {"alice", "bob"}, w \in {30000000, 80000000} : pay_bonus_reward(DataDex, t, w)
    \/ \E m \in {4, 5} : transfer_milestone_reward(DataDex, "alice", m)
    \/ \E w \in {5000000, 80000000} : replenish_pool(DataDex, w)

PayoutSpec == Init /\ [][PayoutNext]_vars

\* a call the pool's admin signs
by_admin == reward_pool.exists /\ last'.caller = reward_pool.admin

C40_Step ==
    /\ (last'.op = "replenish_pool" /\ last'.code = OK) =>
           /\ reward_pool'.balance = reward_pool.balance + last'.amount
           /\ UNCHANGED coin_balance
    /\ (last'.op = "replenish_pool" /\ by_admin /\ last'.amount > 0
        /\ coin_balance[last'.caller] < last'.amount) =>
           /\ last'.code = COIN_EINSUFFICIENT_BALANCE
           /\ UNCHANGED ledger
    /\ (pays_out(last') /\ by_admin /\ names_amount(last')
        /\ payout_amount(last') > 0
        /\ payout_amount(last') <= reward_pool.balance
        /\ coin_balance[last'.caller] < payout_amount(last')) =>
           /\ last'.code = COIN_EINSUFFICIENT_BALANCE
           /\ UNCHANGED ledger
    /\ (pays_out(last') /\ last'.code = OK /\ last'.to # last'.caller) =>
           /\ coin_balance'[last'.caller] = coin_balance[last'.caller] - payout_amount(last')
           /\ coin_balance'[last'.to] = coin_balance[last'.to] + payout_amount(last')

\* C40: the pool balance is bookkeeping only.  A committed replenish_pool
\* raises reward_pool.balance by the amount and leaves the coins of every
\* account, the admin's included, as they were; it aborts, the pool
\* unchanged, when the admin holds less than the amount.  A payout is a
\* transfer out of the admin's coins: a pay_bonus_reward or
\* transfer_milestone_reward that passes the assertion on the pool balance
\* aborts in coin::transfer, nothing changed, when the admin holds less than
\* the amount.
C40_Bookkeeping == [][C40_Step]_vars

\* the pool counts more than its admin holds: a bonus within the pool
\* balance just aborted in coin::transfer, after a replenishment that moved
\* no coins
C40_Witness ==
    /\ last.op = "pay_bonus_reward"
    /\ last.code = COIN_EINSUFFICIENT_BALANCE
    /\ reward_pool.exists
    /\ last.caller = reward_pool.admin
    /\ last.amount <= reward_pool.balance
    /\ coin_balance[last.caller] < last.amount
    /\ pool_replenished_events # << >>
    /\ reward_pool.balance = 95000000
    /\ reward_pool.bonus_rewards = << >>

====
